---- MODULE Spec2Model ----
(***************************************************************************)
(* Model of design_scheme_extractor.py.                                    *)
(*                                                                         *)
(* Python strings are sequences of one-character strings, so that the      *)
(* conversions of the program (rgb_to_hex, lower(), regular-expression     *)
(* matches, substring tests, sorted()) are computed on the characters.     *)
(* Python's None, where a string is expected, is the value None below.     *)
(***************************************************************************)
EXTENDS Integers, Sequences, FiniteSets, TLC

VARIABLES
    signals,        \* raw colour signals the collaborators supply to extract_color_palette
    sorted_colors,  \* extract_color_palette: list(valid_hex_colors), line 196
    colors,         \* the mapping extract_color_palette returns, lines 238-245
    color_pc,       \* "input" before extract_color_palette ran, "done" after
    descriptors,    \* resolver outputs handed to generate_design_schema
    design_schema,  \* the schema generate_design_schema returns, lines 793-879
    schema_pc,      \* "input" before generate_design_schema ran, "done" after
    pc,             \* position in extract_design_scheme_extended
    env,            \* what the collaborators of one run do (which step raises, flags)
    driver,         \* the local variable driver of extract_design_scheme_extended
    session,        \* the driver session: created, quit_calls
    results,        \* the results mapping of extract_design_scheme_extended
    trace,          \* the stages executed so far, in order
    given,          \* the argument each artifact deriver was called with
    call            \* one call of a function checked on its own: fn, pc, arguments, ret

vars == <<signals, sorted_colors, colors, color_pc, descriptors, design_schema,
          schema_pc, pc, env, driver, session, results, trace, given, call>>

colorVars == <<signals, sorted_colors, colors, color_pc>>
schemaVars == <<descriptors, design_schema, schema_pc>>
runVars == <<pc, env, driver, session, results, trace, given>>

----------------------------------------------------------------------------
(* Characters and strings *)

None == <<"None">>

Digits == <<"0","1","2","3","4","5","6","7","8","9">>
HexDigits == <<"0","1","2","3","4","5","6","7","8","9","a","b","c","d","e","f">>
UpperChars == <<"A","B","C","D","E","F","G","H","I","J","K","L","M",
                "N","O","P","Q","R","S","T","U","V","W","X","Y","Z">>
LowerChars == <<"a","b","c","d","e","f","g","h","i","j","k","l","m",
                "n","o","p","q","r","s","t","u","v","w","x","y","z">>
\* The characters the model's strings use, in code-point order
OrdChars == <<" ", "#", "%", "(", ")", ",", "-", ".">> \o Digits \o UpperChars \o LowerChars

Range(s) == { s[i] : i \in 1..Len(s) }

DigitSet == Range(Digits)
HexSet == Range(HexDigits)
UpperSet == Range(UpperChars)

IndexOf(s, c) == CHOOSE i \in 1..Len(s) : s[i] = c

IsDigit(c) == c \in DigitSet

DigitVal(c) == IndexOf(Digits, c) - 1

\* str.lower(), one character
LowerChar(c) == IF c \in UpperSet THEN LowerChars[IndexOf(UpperChars, c)] ELSE c

\* str.lower()
Lower(s) == [i \in 1..Len(s) |-> LowerChar(s[i])]

\* sub in s
Contains(s, sub) ==
    \E i \in 1..(Len(s) - Len(sub) + 1) : SubSeq(s, i, i + Len(sub) - 1) = sub

\* s.startswith(prefix)
StartsWith(s, prefix) == Len(s) >= Len(prefix) /\ SubSeq(s, 1, Len(prefix)) = prefix

\* str < str: lexicographic on code points
CharLess(a, b) == IndexOf(OrdChars, a) < IndexOf(OrdChars, b)

StrLess(s, t) ==
    \E i \in 1..(Len(s) + 1) :
        /\ \A j \in 1..(i - 1) : j <= Len(t) /\ s[j] = t[j]
        /\ \/ i = Len(s) + 1 /\ Len(t) > Len(s)
           \/ i <= Len(s) /\ i <= Len(t) /\ CharLess(s[i], t[i])

\* sorted(S) for a set of strings
RECURSIVE SortedList(_)
SortedList(S) ==
    IF S = {} THEN <<>>
    ELSE LET m == CHOOSE x \in S : \A y \in S \ {x} : StrLess(x, y)
         IN <<m>> \o SortedList(S \ {m})

\* lst[:n]
Take(lst, n) == SubSeq(lst, 1, IF Len(lst) < n THEN Len(lst) ELSE n)

\* int(s) for a run of digits
RECURSIVE IntOf(_)
IntOf(s) == IF s = <<>> THEN 0 ELSE 10 * IntOf(SubSeq(s, 1, Len(s) - 1)) + DigitVal(s[Len(s)])

\* re.findall(r'\d+', s), each match converted by int(): the maximal digit runs
RECURSIVE FindallDigits(_, _)
FindallDigits(s, run) ==
    IF s = <<>> THEN (IF run = <<>> THEN <<>> ELSE <<IntOf(run)>>)
    ELSE IF IsDigit(Head(s)) THEN FindallDigits(Tail(s), Append(run, Head(s)))
    ELSE (IF run = <<>> THEN <<>> ELSE <<IntOf(run)>>) \o FindallDigits(Tail(s), <<>>)

UpperHexDigits == <<"0","1","2","3","4","5","6","7","8","9","A","B","C","D","E","F">>

\* Mutant of Hex2: f'{n:02X}'
Hex2_Upper(n) == <<UpperHexDigits[(n \div 16) + 1], UpperHexDigits[(n % 16) + 1]>>

\* f'{n:02x}' for 0 <= n <= 255
Hex2(n) == <<HexDigits[(n \div 16) + 1], HexDigits[(n % 16) + 1]>>

\* f'#{r:02x}{g:02x}{b:02x}'
HexOfRgb(r, g, b) == <<"#">> \o Hex2(r) \o Hex2(g) \o Hex2(b)

\* max(0, min(n, 255))
Clamp255(n) == IF n < 0 THEN 0 ELSE IF n > 255 THEN 255 ELSE n

rgb_to_hex(rgb_str) ==
    IF rgb_str = None \/ rgb_str = <<>> \/ ~Contains(Lower(rgb_str), <<"r","g","b">>)
    THEN None
    ELSE LET numbers == FindallDigits(rgb_str, <<>>)
         IN IF Len(numbers) >= 3
            THEN HexOfRgb(Clamp255(numbers[1]), Clamp255(numbers[2]), Clamp255(numbers[3]))
            ELSE None

\* re.match(r'^#[0-9a-fA-F]{6}$', c)
MatchesHex6(c) ==
    /\ Len(c) = 7
    /\ c[1] = "#"
    /\ \A i \in 2..7 : LowerChar(c[i]) \in HexSet

----------------------------------------------------------------------------
(* String literals of the program and of the sampled pages *)

S_rgb_red == <<"r","g","b","(","2","5","5",","," ","0",","," ","0",")">>  \* 'rgb(255, 0, 0)'
S_rgba_red == <<"r","g","b","a","(","2","5","5",",","0",",","0",",","0",".","5",")">>  \* 'rgba(255,0,0,0.5)'
S_rgb_green == <<"r","g","b","(","0",","," ","1","2","8",","," ","0",")">>  \* 'rgb(0, 128, 0)'
S_rgb_gray == <<"r","g","b","(","1","2","8",","," ","1","2","8",","," ","1","2","8",")">>  \* 'rgb(128, 128, 128)'
S_rgb_white == <<"r","g","b","(","2","5","5",","," ","2","5","5",","," ","2","5","5",")">>  \* 'rgb(255, 255, 255)'
S_rgb_black == <<"r","g","b","(","0",","," ","0",","," ","0",")">>  \* 'rgb(0, 0, 0)'
S_rgba_clear == <<"r","g","b","a","(","0",","," ","0",","," ","0",","," ","0",")">>  \* 'rgba(0, 0, 0, 0)'
S_transparent == <<"t","r","a","n","s","p","a","r","e","n","t">>  \* 'transparent'
S_two_borders == <<"r","g","b","(","0",","," ","0",","," ","1","2","8",")"," ","r","g","b","(","9",","," ","9",","," ","9",")">>  \* 'rgb(0, 0, 128) rgb(9, 9, 9)'
S_hex_red == <<"#","F","F","0","0","0","0">>  \* '#FF0000'
S_RGB_upper == <<"R","G","B","(","1",",","2",",","3",")">>  \* 'RGB(1,2,3)'
S_rgb_over == <<"r","g","b","(","3","0","0",","," ","0",","," ","1","2",")">>  \* 'rgb(300, 0, 12)'
S_rgb_two == <<"r","g","b","(","0"," ","0",")">>  \* 'rgb(0 0)'
S_border_blue == <<"1","p","x"," ","s","o","l","i","d"," ","r","g","b","(","0",","," ","0",","," ","2","5","5",")">>  \* '1px solid rgb(0, 0, 255)'
S_none == <<"n","o","n","e">>  \* 'none'
S_inherit == <<"i","n","h","e","r","i","t">>  \* 'inherit'
S_initial == <<"i","n","i","t","i","a","l">>  \* 'initial'
S_unset == <<"u","n","s","e","t">>  \* 'unset'
S_color == <<"c","o","l","o","r">>  \* 'color'
S_background == <<"b","a","c","k","g","r","o","u","n","d">>  \* 'background'
S_border == <<"b","o","r","d","e","r">>  \* 'border'
S_fill == <<"f","i","l","l">>  \* 'fill'
S_stroke == <<"s","t","r","o","k","e">>  \* 'stroke'
S_background_color == <<"b","a","c","k","g","r","o","u","n","d","-","c","o","l","o","r">>  \* 'background-color'
S_font_size == <<"f","o","n","t","-","s","i","z","e">>  \* 'font-size'
S_white_hex == <<"#","f","f","f","f","f","f">>  \* '#ffffff'
S_black_hex == <<"#","0","0","0","0","0","0">>  \* '#000000'
S_default_primary == <<"#","0","0","0","0","f","f">>  \* '#0000ff'
S_default_secondary == <<"#","d","3","d","3","d","3">>  \* '#d3d3d3'
S_default_accent == <<"#","f","f","a","5","0","0">>  \* '#ffa500'

K_high_contrast == <<"h","i","g","h","-","c","o","n","t","r","a","s","t">>  \* 'high-contrast'
K_limited_palette == <<"l","i","m","i","t","e","d","-","p","a","l","e","t","t","e">>  \* 'limited-palette'
K_rounded_corners == <<"r","o","u","n","d","e","d","-","c","o","r","n","e","r","s">>  \* 'rounded-corners'
K_sharp_corners == <<"s","h","a","r","p","-","c","o","r","n","e","r","s">>  \* 'sharp-corners'
K_uses_shadows == <<"u","s","e","s","-","s","h","a","d","o","w","s">>  \* 'uses-shadows'
K_flat_design == <<"f","l","a","t","-","d","e","s","i","g","n">>  \* 'flat-design'
K_serif_typography == <<"s","e","r","i","f","-","t","y","p","o","g","r","a","p","h","y">>  \* 'serif-typography'
K_sans_serif_typography == <<"s","a","n","s","-","s","e","r","i","f","-","t","y","p","o","g","r","a","p","h","y">>  \* 'sans-serif-typography'
K_grid_layout == <<"g","r","i","d","-","l","a","y","o","u","t">>  \* 'grid-layout'
K_contained_width == <<"c","o","n","t","a","i","n","e","d","-","w","i","d","t","h">>  \* 'contained-width'
K_full_width_layout == <<"f","u","l","l","-","w","i","d","t","h","-","l","a","y","o","u","t">>  \* 'full-width-layout'
K_svg_icons == <<"s","v","g","-","i","c","o","n","s">>  \* 'svg-icons'
K_icon_font == <<"i","c","o","n","-","f","o","n","t">>  \* 'icon-font'
S_0px == <<"0","p","x">>  \* '0px'
S_0pct == <<"0","%">>  \* '0%'
S_4px == <<"4","p","x">>  \* '4px'
S_8px == <<"8","p","x">>  \* '8px'
S_50pct == <<"5","0","%">>  \* '50%'
S_shadow == <<"r","g","b","a","(","0",","," ","0",","," ","0",","," ","0",".","2",")"," ","0","p","x"," ","2","p","x"," ","4","p","x">>  \* 'rgba(0, 0, 0, 0.2) 0px 2px 4px'
S_serif == <<"s","e","r","i","f">>  \* 'serif'
S_georgia == <<"g","e","o","r","g","i","a">>  \* 'georgia'
S_times == <<"t","i","m","e","s">>  \* 'times'
S_palatino == <<"p","a","l","a","t","i","n","o">>  \* 'palatino'
S_bookman == <<"b","o","o","k","m","a","n">>  \* 'bookman'
S_charter == <<"c","h","a","r","t","e","r">>  \* 'charter'
F_sans_serif == <<"s","a","n","s","-","s","e","r","i","f">>  \* 'sans-serif'
F_arial == <<"A","r","i","a","l",","," ","H","e","l","v","e","t","i","c","a">>  \* 'Arial, Helvetica'
F_georgia == <<"G","e","o","r","g","i","a",","," ","s","e","r","i","f">>  \* 'Georgia, serif'
F_times == <<"T","i","m","e","s"," ","N","e","w"," ","R","o","m","a","n">>  \* 'Times New Roman'
F_roboto == <<"R","o","b","o","t","o">>  \* 'Roboto'

----------------------------------------------------------------------------
(* extract_color_palette *)

\* Program constants
ColorCount == 10
PaletteCap == 15

\* the value is truthy: neither None nor the empty string
Truthy(v) == v /= None /\ v /= <<>>

\* re.match(r'(rgba?\([^)]+\))', border_color).group(1), or None without a match
BorderFirstColor(v) ==
    LET open == IF StartsWith(v, <<"r","g","b","a","(">>) THEN 5
                ELSE IF StartsWith(v, <<"r","g","b","(">>) THEN 4 ELSE 0
        closes == { k \in 1..Len(v) : k > open /\ v[k] = ")" }
    IN IF open = 0 \/ closes = {} THEN None
       ELSE LET k == CHOOSE x \in closes : \A y \in closes : x <= y
            IN IF k >= open + 2 THEN SubSeq(v, 1, k) ELSE None

\* Method 3: the raw computed colours kept from the sampled elements
ComputedColorsRaw(samples) ==
    { e.value : e \in { x \in samples :
          /\ x.prop \in {"backgroundColor", "color"}
          /\ Truthy(x.value)
          /\ ~Contains(x.value, S_rgba_clear)
          /\ ~Contains(x.value, S_transparent) } }
    \cup
    { BorderFirstColor(e.value) : e \in { x \in samples :
          /\ x.prop = "borderColor"
          /\ Truthy(x.value)
          /\ ~Contains(x.value, S_rgba_clear)
          /\ ~Contains(x.value, S_transparent)
          /\ ~Contains(x.value, S_none)
          /\ BorderFirstColor(x.value) /= None } }

\* Method 2: the declaration values kept from the <style> rules
ColorsFromCssRules(decls) ==
    { d.value : d \in { x \in decls :
          /\ \E color_prop \in {S_color, S_background, S_border, S_fill, S_stroke} :
                 Contains(Lower(x.name), color_prop)
          /\ Truthy(x.value)
          /\ Lower(x.value) \notin {S_inherit, S_transparent, S_none, S_initial, S_unset} } }

\* Method 1: the dominant colours of the screenshot as hex strings
HexDominantColors(rgbs) == [i \in 1..Len(rgbs) |-> HexOfRgb(rgbs[i][1], rgbs[i][2], rgbs[i][3])]

AllHexColors(sig) ==
    Range(HexDominantColors(sig.dominant_colors_rgb))
    \cup { rgb_to_hex(c) : c \in ComputedColorsRaw(sig.computed_styles) }
    \cup { rgb_to_hex(c) : c \in ColorsFromCssRules(sig.css_declarations) }

ValidHexColors(sig) == { c \in AllHexColors(sig) : c /= None /\ MatchesHex6(c) }

\* rgb_to_hex(x) or default
OrDefault(x, default) == IF Truthy(x) THEN x ELSE default

BackgroundColorHex(sig) ==
    IF sig.body_raises THEN S_white_hex ELSE OrDefault(rgb_to_hex(sig.body_bg), S_white_hex)

TextColorHex(sig) ==
    IF sig.body_raises THEN S_black_hex ELSE OrDefault(rgb_to_hex(sig.body_text), S_black_hex)

\* c[1:3] == c[3:5] == c[5:7]
IsGray(c) == SubSeq(c, 2, 3) = SubSeq(c, 4, 5) /\ SubSeq(c, 4, 5) = SubSeq(c, 6, 7)

\* c.lower() not in [x.lower() for x in excluded]
NotIn(c, excluded) == Lower(c) \notin { Lower(x) : x \in excluded }

NonGrayColors(lst, bg, text) ==
    LET keep(c) == NotIn(c, {bg, text}) /\ ~IsGray(c) IN SelectSeq(lst, keep)

\* lst[i] (0-based) if the list is that long, else the fallback
ItemOr(lst, i, fallback) == IF Len(lst) > i THEN lst[i + 1] ELSE fallback

\* the elif len(sorted_colors) >= 3 branch, lines 216-223
FallbackRoles(lst, bg, text) ==
    LET keepP(c) == NotIn(c, {bg, text})
        potential_primaries == SelectSeq(lst, keepP)
        primary == IF potential_primaries /= <<>> THEN potential_primaries[1] ELSE lst[1]
        keepS(c) == NotIn(c, {bg, text, primary})
        potential_secondaries == SelectSeq(lst, keepS)
        secondary == IF potential_secondaries /= <<>> THEN potential_secondaries[1]
                     ELSE ItemOr(lst, 1, primary)
        keepA(c) == NotIn(c, {bg, text, primary, secondary})
        potential_accents == SelectSeq(lst, keepA)
        accent == IF potential_accents /= <<>> THEN potential_accents[1]
                  ELSE ItemOr(lst, 2, secondary)
    IN <<primary, secondary, accent>>

\* Mutant of AssignRoles: the absolute fallback reuses the body colours
AssignRoles_NoDefaults(lst, bg, text) ==
    LET non_gray_colors == NonGrayColors(lst, bg, text)
    IN IF Len(non_gray_colors) >= 3
       THEN <<non_gray_colors[1], non_gray_colors[2], non_gray_colors[3]>>
       ELSE IF Len(lst) >= 3 THEN FallbackRoles(lst, bg, text)
       ELSE IF Len(lst) = 2 THEN <<lst[1], lst[2], lst[1]>>
       ELSE IF Len(lst) = 1
            THEN <<lst[1], IF Lower(lst[1]) /= Lower(text) THEN text ELSE bg, lst[1]>>
       ELSE <<text, bg, text>>

\* lines 210-236: <<primary_color, secondary_color, accent_color>>
AssignRoles(lst, bg, text) ==
    LET non_gray_colors == NonGrayColors(lst, bg, text)
    IN IF Len(non_gray_colors) >= 3
       THEN <<non_gray_colors[1], non_gray_colors[2], non_gray_colors[3]>>
       ELSE IF Len(lst) >= 3 THEN FallbackRoles(lst, bg, text)
       ELSE IF Len(lst) = 2 THEN <<lst[1], lst[2], lst[1]>>
       ELSE IF Len(lst) = 1
            THEN <<lst[1], IF Lower(lst[1]) /= Lower(text) THEN text ELSE bg, lst[1]>>
       ELSE <<S_default_primary, S_default_secondary, S_default_accent>>

\* Mutant of Palette: the slice [:15] is missing
Palette_Uncapped(valid) == SortedList(valid)

\* sorted(list(valid_hex_colors))[:15]
Palette(valid) == Take(SortedList(valid), PaletteCap)

(* list(valid_hex_colors): a set of str is iterated in hash order, which the
   language leaves unspecified and which differs from one process to the next
   (string hashes are salted per process). Role assignment reads the list only
   through the first element of filtered sub-lists, three times, so its
   outcomes over all orders are exactly its outcomes over the orders that put
   any three elements first, in any order; for up to four elements these are
   all the permutations. *)
ListOrders(S) ==
    IF S = {} THEN {<<>>}
    ELSE IF Cardinality(S) = 1 THEN { <<a>> : a \in S }
    ELSE IF Cardinality(S) = 2 THEN { <<a, b>> : a \in S, b \in S } \ { <<a, a>> : a \in S }
    ELSE UNION { { <<a, b, c>> \o SelectSeq(rest, LAMBDA x : x \notin {a, b, c}) :
                     <<a, b, c>> \in { x \in S \X S \X S :
                                        x[1] /= x[2] /\ x[1] /= x[3] /\ x[2] /= x[3] } } :
                 rest \in {SortedList(S)} }

\* lines 238-245
ColorResult(lst, bg, text, palette) ==
    LET roles == AssignRoles(lst, bg, text)
    IN [primary_color |-> roles[1], secondary_color |-> roles[2], accent_color |-> roles[3],
        background_color |-> bg, text_color |-> text,
        palette |-> palette]

NoColors == [primary_color |-> None, secondary_color |-> None, accent_color |-> None,
             background_color |-> None, text_color |-> None, palette |-> <<>>]

\* One call of extract_color_palette on the signals of the page
ExtractColorPalette ==
    /\ color_pc = "input"
    /\ \E valid_hex_colors \in {ValidHexColors(signals)},
          background_color_hex \in {BackgroundColorHex(signals)},
          text_color_hex \in {TextColorHex(signals)} :
          \E palette \in {Palette(valid_hex_colors)}, lst \in ListOrders(valid_hex_colors) :
             /\ sorted_colors' = lst
             /\ colors' = ColorResult(lst, background_color_hex, text_color_hex, palette)
    /\ color_pc' = "done"
    /\ UNCHANGED <<signals, schemaVars, runVars, call>>

----------------------------------------------------------------------------
(* The pages extract_color_palette is run on *)

\* Bounds of the model
MaxDominant == 2
MaxRaw == 1

\* What ColorThief may report, in its order; at most ColorCount colours
DominantPool ==
    << <<255, 0, 0>>, <<0, 128, 0>>, <<0, 0, 255>>, <<255, 165, 0>>, <<128, 0, 128>>,
       <<0, 255, 255>>, <<255, 192, 203>>, <<165, 42, 42>>, <<128, 128, 128>>,
       <<245, 245, 245>> >>

\* str(n) for n >= 0
RECURSIVE DecStr(_)
DecStr(n) == IF n < 10 THEN <<Digits[n + 1]>> ELSE DecStr(n \div 10) \o <<Digits[(n % 10) + 1]>>

\* the browser's serialisation of an opaque computed colour: 'rgb(r, g, b)'
RgbString(t) ==
    <<"r","g","b","(">> \o DecStr(t[1]) \o <<",", " ">> \o DecStr(t[2]) \o <<",", " ">>
    \o DecStr(t[3]) \o <<")">>

\* Computed styles read from sampled elements
SamplePool ==
    { [prop |-> "backgroundColor", value |-> S_rgb_red],
      [prop |-> "color", value |-> S_rgba_red],
      [prop |-> "backgroundColor", value |-> S_rgba_clear],
      [prop |-> "color", value |-> S_rgb_gray],
      [prop |-> "backgroundColor", value |-> S_rgb_white],
      [prop |-> "color", value |-> S_rgb_black],
      [prop |-> "borderColor", value |-> S_two_borders] }

\* Declarations found in <style> rules
CssPool ==
    { [name |-> S_color, value |-> S_hex_red],
      [name |-> S_background_color, value |-> S_RGB_upper],
      [name |-> S_border, value |-> S_border_blue],
      [name |-> S_fill, value |-> S_rgb_over],
      [name |-> S_color, value |-> S_transparent],
      [name |-> S_stroke, value |-> S_rgb_two],
      [name |-> S_font_size, value |-> S_rgb_gray] }

\* A page with many distinct colours on its elements
LargeSamples ==
    { [prop |-> "backgroundColor", value |-> RgbString(t)] :
        t \in { <<0, 0, 128>>, <<0, 128, 128>>, <<128, 128, 0>>, <<128, 0, 0>>,
                <<255, 215, 0>>, <<75, 0, 130>>, <<255, 99, 71>> } }

\* getComputedStyle(document.body): the two reads raise, or return a string or nothing
BodyChoices ==
    { [body_raises |-> TRUE, body_bg |-> None, body_text |-> None] }
    \cup
    { [body_raises |-> FALSE, body_bg |-> b, body_text |-> t] :
        b \in {S_rgb_white, S_rgba_clear, S_rgb_red, None},
        t \in {S_rgb_black, S_rgb_green} }

Signals(dom, samples, decls, body) ==
    [dominant_colors_rgb |-> dom, computed_styles |-> samples, css_declarations |-> decls,
     body_raises |-> body.body_raises, body_bg |-> body.body_bg, body_text |-> body.body_text]

SmallPages ==
    { Signals(SubSeq(DominantPool, 1, k), samples, decls, body) :
        k \in 0..MaxDominant,
        samples \in { x \in SUBSET SamplePool : Cardinality(x) <= MaxRaw },
        decls \in { x \in SUBSET CssPool : Cardinality(x) <= MaxRaw },
        body \in BodyChoices }

LargePages ==
    { Signals(SubSeq(DominantPool, 1, k), {}, {}, body) :
        k \in {ColorCount - 2, ColorCount},
        body \in { x \in BodyChoices : x.body_raises \/ x.body_bg = S_rgb_red } }
    \cup
    { Signals(DominantPool, LargeSamples, {}, body) :
        body \in { x \in BodyChoices : x.body_raises } }

ColorPages ==
    { p \in SmallPages : Cardinality(p.computed_styles) + Cardinality(p.css_declarations) <= MaxRaw }
    \cup LargePages

ColorIdle ==
    /\ signals = Signals(<<>>, {}, {}, [body_raises |-> TRUE, body_bg |-> None, body_text |-> None])
    /\ sorted_colors = <<>>
    /\ colors = NoColors
    /\ color_pc = "idle"

ColorInit ==
    /\ signals \in ColorPages
    /\ sorted_colors = <<>>
    /\ colors = NoColors
    /\ color_pc = "input"

----------------------------------------------------------------------------
(* generate_design_schema *)

\* None where a number is expected
NoneNum == 0 - 1

\* dict.get(key, default); a dict is a function on its keys, {} the empty one
Get(d, key, default) == IF key \in DOMAIN d THEN d[key] ELSE default

EmptyDict == <<>>

\* sorted(S) for a set of strings, as a list
SortedKeywords(S) == SortedList(S)

\* lines 813-818
PaletteKeywords(colors_in) ==
    IF colors_in /= EmptyDict /\ Get(colors_in, "palette", <<>>) /= <<>>
    THEN IF Len(colors_in.palette) > 6 THEN {K_high_contrast}
         ELSE IF Len(colors_in.palette) <= 4 THEN {K_limited_palette}
         ELSE {}
    ELSE {}

\* lines 825-834
RadiusKeywords(components, images) ==
    LET button_radius == Get(Get(components, "buttons", EmptyDict), "border_radius", S_0px)
        card_radius == Get(Get(components, "cards", EmptyDict), "border_radius", S_0px)
        image_radius == Get(Get(images, "image_style", EmptyDict), "border_radius", S_0px)
        has_rounding == \E r \in {button_radius, card_radius, image_radius} :
                            Truthy(r) /\ r /= S_0px /\ r /= S_0pct
    IN IF has_rounding THEN {K_rounded_corners} ELSE {K_sharp_corners}

\* Mutant of ShadowKeywords: the else branch is not an else
ShadowKeywords_Both(components, images) ==
    LET card_shadow == Get(Get(components, "cards", EmptyDict), "box_shadow", None)
        image_shadow == Get(Get(images, "image_style", EmptyDict), "box_shadow", None)
        nav_shadow == Get(Get(components, "navigation", EmptyDict), "box_shadow", None)
    IN (IF Truthy(card_shadow) \/ Truthy(image_shadow) \/ Truthy(nav_shadow)
        THEN {K_uses_shadows} ELSE {}) \cup {K_flat_design}

\* lines 837-843
ShadowKeywords(components, images) ==
    LET card_shadow == Get(Get(components, "cards", EmptyDict), "box_shadow", None)
        image_shadow == Get(Get(images, "image_style", EmptyDict), "box_shadow", None)
        nav_shadow == Get(Get(components, "navigation", EmptyDict), "box_shadow", None)
    IN IF Truthy(card_shadow) \/ Truthy(image_shadow) \/ Truthy(nav_shadow)
       THEN {K_uses_shadows} ELSE {K_flat_design}

\* lines 847-854: the lower-cased font the serif test reads
HeadingFont(typography) ==
    LET headings == Get(typography, "headings", EmptyDict)
        major == SelectSeq(<<"h1", "h2", "h3">>, LAMBDA h : h \in DOMAIN headings)
        first == IF major /= <<>>
                 THEN Lower(Get(headings[major[1]], "font_family", <<>>))
                 ELSE <<>>
    IN IF first /= <<>> THEN first
       ELSE Lower(Get(Get(typography, "body", EmptyDict), "font_family", <<>>))

serif_indicators == {S_serif, S_georgia, S_times, S_palatino, S_bookman, S_charter}

\* lines 856-860
TypographyKeywords(typography) ==
    IF \E indicator \in serif_indicators : Contains(HeadingFont(typography), indicator)
    THEN {K_serif_typography} ELSE {K_sans_serif_typography}

\* lines 863-868
LayoutKeywords(layout) ==
    (IF Get(layout, "has_grid_system", FALSE) THEN {K_grid_layout} ELSE {})
    \cup
    (IF Get(layout, "container_width", NoneNum) \notin {NoneNum, 0}
     THEN {K_contained_width} ELSE {K_full_width_layout})

\* lines 871-874
IconKeywords(images) ==
    IF Get(images, "has_svg_icons", FALSE) THEN {K_svg_icons}
    ELSE IF Get(images, "has_icon_font", FALSE) THEN {K_icon_font}
    ELSE {}

\* lines 810-877: sorted(list(keywords))
StyleKeywords(d) ==
    SortedKeywords(PaletteKeywords(d.colors)
                   \cup RadiusKeywords(d.components, d.images)
                   \cup ShadowKeywords(d.components, d.images)
                   \cup TypographyKeywords(d.typography)
                   \cup LayoutKeywords(d.layout)
                   \cup IconKeywords(d.images))

\* Mutant of DesignSchema: the time of the run is also written into design_summary
DesignSchema_Dated(d) ==
    [metadata |-> [source_url |-> d.url, extraction_date |-> d.now, schema_version |-> "1.0"],
     colors |-> d.colors,
     typography |-> d.typography,
     layout |-> d.layout,
     components |-> d.components,
     images |-> d.images,
     design_summary |-> [style_keywords |-> StyleKeywords(d), generated |-> d.now]]

\* lines 793-807, 877-879
DesignSchema(d) ==
    [metadata |-> [source_url |-> d.url, extraction_date |-> d.now, schema_version |-> "1.0"],
     colors |-> d.colors,
     typography |-> d.typography,
     layout |-> d.layout,
     components |-> d.components,
     images |-> d.images,
     design_summary |-> [style_keywords |-> StyleKeywords(d)]]

\* One call of generate_design_schema on the resolver outputs
GenerateDesignSchema ==
    /\ schema_pc = "input"
    /\ design_schema' = DesignSchema(descriptors)
    /\ schema_pc' = "done"
    /\ UNCHANGED <<descriptors, colorVars, runVars, call>>

----------------------------------------------------------------------------
(* The resolver outputs generate_design_schema is run on *)

\* Bound of the model: the longest palette handed to generate_design_schema
MaxPaletteLen == 7

\* Palettes as extract_color_palette returns them: sorted, distinct
PalettePool == SortedList(Range(HexDominantColors(DominantPool)))

ColorsOfLen(k) ==
    [primary_color |-> S_default_primary, secondary_color |-> S_default_secondary,
     accent_color |-> S_default_accent, background_color |-> S_white_hex,
     text_color |-> S_black_hex, palette |-> SubSeq(PalettePool, 1, k)]

\* detect_component_patterns: a component is {} or carries the sampled attributes
ButtonChoices == { EmptyDict, [border_radius |-> S_0px], [border_radius |-> S_4px] }
CardChoices ==
    { EmptyDict, [border_radius |-> S_0px, box_shadow |-> None],
      [border_radius |-> S_8px, box_shadow |-> S_shadow] }
NavChoices == { EmptyDict, [box_shadow |-> S_shadow] }
\* analyze_images_and_icons: border_radius is None for '0px', box_shadow None for 'none'
ImageStyleChoices ==
    { EmptyDict, [border_radius |-> None, box_shadow |-> None],
      [border_radius |-> S_50pct, box_shadow |-> S_shadow] }
IconChoices ==
    { [has_svg_icons |-> FALSE, has_icon_font |-> FALSE],
      [has_svg_icons |-> FALSE, has_icon_font |-> TRUE],
      [has_svg_icons |-> TRUE, has_icon_font |-> TRUE] }
\* extract_typography: headings holds a level only when it was sampled
HeadingChoices ==
    { EmptyDict,
      [x \in {"h1"} |-> [font_family |-> F_georgia]],
      [x \in {"h2", "h4"} |-> [font_family |-> IF x = "h2" THEN F_roboto ELSE F_times]] }
F_helvetica_stack == <<"H","e","l","v","e","t","i","c","a",","," ","s","a","n","s","-","s","e","r","i","f">>  \* 'Helvetica, sans-serif'
BodyFontChoices == { F_sans_serif, F_arial, F_helvetica_stack }
ContainerChoices == { NoneNum, 1200 }

Descriptors ==
    { [url |-> "https://example.org", now |-> 1,
       colors |-> ColorsOfLen(k),
       typography |-> [headings |-> h, body |-> [font_family |-> bf]],
       layout |-> [has_grid_system |-> g, container_width |-> cw],
       components |-> [buttons |-> b, cards |-> c, navigation |-> n],
       images |-> [has_svg_icons |-> ic.has_svg_icons, has_icon_font |-> ic.has_icon_font,
                   image_style |-> im]] :
        k \in 0..MaxPaletteLen, h \in HeadingChoices, bf \in BodyFontChoices,
        g \in BOOLEAN, cw \in ContainerChoices, b \in ButtonChoices, c \in CardChoices,
        n \in NavChoices, ic \in IconChoices, im \in ImageStyleChoices }

SchemaInit ==
    /\ descriptors \in Descriptors
    /\ design_schema = EmptyDict
    /\ schema_pc = "input"

\* generate_design_schema called again on the same resolver outputs: the run made
\* when the clock (datetime.datetime.now(), line 796) shows call.clock[runs + 1]
GenerateDesignSchemaAgain ==
    /\ call.fn = "generate_design_schema"
    /\ Len(call.schemas) < Len(call.clock)
    /\ call' = [call EXCEPT !.schemas =
                   Append(@, DesignSchema([call.descriptors EXCEPT
                                              !.now = call.clock[Len(call.schemas) + 1]]))]
    /\ UNCHANGED <<colorVars, schemaVars, runVars>>

\* Two runs on a descriptor, at the same instant or at two instants, for the empty
\* palette, a palette of five colours and the longest one
RepeatCalls ==
    [fn : {"generate_design_schema"},
     descriptors : { d \in Descriptors : /\ Len(d.colors.palette) \in {0, 5, MaxPaletteLen}
                                         /\ d.layout.has_grid_system },
     clock : { << 1, 1 >>, << 1, 2 >> }, schemas : { <<>> }]

----------------------------------------------------------------------------
(* Plugins: lines 1141-1243 *)

\* d[key] = v on a mapping: the mapping with key bound to v
Put(d, key, v) == [x \in (DOMAIN d) \cup {key} |-> IF x = key THEN v ELSE d[x]]

Min(S) == CHOOSE x \in S : \A y \in S : x <= y

S_wp_themes == <<"w","p","-","c","o","n","t","e","n","t","/","t","h","e","m","e","s","/">>  \* 'wp-content/themes/'

\* line 1188: re.search(r'wp-content/themes/([^/]+)', html_content, re.IGNORECASE),
\* group(1) of the leftmost match, None without a match
ThemeName(html_content) ==
    LET low == Lower(html_content)
        n == Len(S_wp_themes)
        starts == { i \in 1..(Len(html_content) - n) :
                       /\ SubSeq(low, i, i + n - 1) = S_wp_themes
                       /\ html_content[i + n] /= "/" }
    IN IF starts = {} THEN None
       ELSE LET b == Min(starts) + n
                stops == { j \in b..Len(html_content) : html_content[j] = "/" }
            IN SubSeq(html_content, b, IF stops = {} THEN Len(html_content) ELSE Min(stops) - 1)

\* The width safe_execute_script reads from the visible sidebar, line 1207
SidebarWidth == 300

\* WordPressPlugin.enhance_schema, lines 1182-1213: the content of design_schema
\* when it returns. drv.sidebar says what find_elements and is_displayed give.
WordPressEnhance(schema, html_content, drv) ==
    LET s1 == IF "metadata" \in DOMAIN schema THEN schema ELSE Put(schema, "metadata", EmptyDict)
        s2 == Put(s1, "metadata",
                  Put(s1["metadata"], "cms", [type |-> "wordpress", theme |-> ThemeName(html_content)]))
        s3 == IF "components" \in DOMAIN s2 THEN s2 ELSE Put(s2, "components", EmptyDict)
    IN IF drv.present /\ drv.sidebar = "visible"
       THEN Put(s3, "components",
                Put(s3["components"], "sidebar", [present |-> TRUE, width |-> SidebarWidth]))
       ELSE s2

\* Mutant of applies_to: every plugin applies to every type
applies_to_Always(plugin, detected_type) == TRUE

\* DesignSchemeExtractorPlugin.applies_to, lines 1155-1157 (applicable_types is the
\* list built at lines 1150-1153); for applicable_types None the test raises
applies_to(plugin, detected_type) == detected_type \in Range(plugin.applicable_types)

\* plugin.enhance_schema(design_schema, html_content, driver): whether it raises, the
\* content it leaves in the mapping it was given (arg), what it returns (ret), and
\* whether the returned mapping is the one it was given (same).
\*   WordPressPlugin                lines 1182-1213
\*   DesignSchemeExtractorPlugin    lines 1159-1173, returns its argument
\*   TaggingPlugin, RaisingPlugin   subclasses overriding enhance_schema: one returns a
\*                                  new mapping, one writes a key and then raises
enhance_schema(plugin, schema, html_content, drv) ==
    IF plugin.cls = "WordPressPlugin" /\ html_content = None
    THEN \* line 1188: re.search raises TypeError, after lines 1184-1185
         [raised |-> TRUE,
          arg |-> IF "metadata" \in DOMAIN schema THEN schema
                  ELSE Put(schema, "metadata", EmptyDict),
          ret |-> schema, same |-> TRUE]
    ELSE IF plugin.cls = "WordPressPlugin"
    THEN LET s == WordPressEnhance(schema, html_content, drv)
         IN [raised |-> FALSE, arg |-> s, ret |-> s, same |-> TRUE]
    ELSE IF plugin.cls = "TaggingPlugin"
    THEN [raised |-> FALSE, arg |-> schema,
          ret |-> Put(schema, "tags", Append(Get(schema, "tags", <<>>), plugin.plugin_name)),
          same |-> FALSE]
    ELSE IF plugin.cls = "RaisingPlugin"
    THEN [raised |-> TRUE, arg |-> Put(schema, "partial", plugin.plugin_name),
          ret |-> schema, same |-> TRUE]
    ELSE [raised |-> FALSE, arg |-> schema, ret |-> schema, same |-> TRUE]

\* One iteration of the loop of lines 1229-1236 on plugin, from the loop state st:
\*   design_schema    the content of the mapping the local variable refers to
\*   caller_schema    the content of the mapping the caller passed
\*   aliased          the local variable still refers to the caller's mapping
\*   applied_plugins  line 1227
\*   calls            the enhance_schema calls made so far
PluginStep(st, plugin, website_type, html_content, drv) ==
    IF plugin.applicable_types = None \/ ~applies_to(plugin, website_type)
    THEN st
    ELSE LET r == enhance_schema(plugin, st.design_schema, html_content, drv)
             made == [plugin |-> plugin.plugin_name, received |-> st.design_schema,
                      raised |-> r.raised,
                      left |-> IF r.raised THEN r.arg ELSE r.ret]
         IN [design_schema |-> made.left,
             caller_schema |-> IF st.aliased THEN r.arg ELSE st.caller_schema,
             aliased |-> st.aliased /\ (r.raised \/ r.same),
             applied_plugins |-> IF r.raised THEN st.applied_plugins
                                 ELSE Append(st.applied_plugins, plugin.plugin_name),
             calls |-> Append(st.calls, made)]

\* Mutant of PluginLoop: the first plugin that raises ends the loop
RECURSIVE PluginLoop_AbortOnRaise(_, _, _, _, _)
PluginLoop_AbortOnRaise(st, plugins, website_type, html_content, drv) ==
    IF plugins = <<>> \/ (st.calls /= <<>> /\ st.calls[Len(st.calls)].raised) THEN st
    ELSE PluginLoop_AbortOnRaise(PluginStep(st, Head(plugins), website_type, html_content, drv),
                                 Tail(plugins), website_type, html_content, drv)

\* lines 1229-1236: for plugin in plugins
RECURSIVE PluginLoop(_, _, _, _, _)
PluginLoop(st, plugins, website_type, html_content, drv) ==
    IF plugins = <<>> THEN st
    ELSE PluginLoop(PluginStep(st, Head(plugins), website_type, html_content, drv),
                    Tail(plugins), website_type, html_content, drv)

\* enhance_with_plugins, lines 1223-1243, with plugins the content of _PLUGINS
enhance_with_plugins(schema, website_type, html_content, drv, plugins) ==
    PluginLoop([design_schema |-> schema, caller_schema |-> schema, aliased |-> TRUE,
                applied_plugins |-> <<>>, calls |-> <<>>],
               plugins, website_type, html_content, drv)

\* One call of enhance_with_plugins
EnhanceWithPluginsCall ==
    /\ call.fn = "enhance_with_plugins"
    /\ call.pc = "input"
    /\ call' = [call EXCEPT !.pc = "done",
                            !.ret = enhance_with_plugins(call.design_schema, call.website_type,
                                                         call.html_content, call.driver,
                                                         call.plugins)]
    /\ UNCHANGED <<colorVars, schemaVars, runVars>>

\* Line 1217: the registry of the program
WordPressPlugin ==
    [cls |-> "WordPressPlugin", plugin_name |-> "wordpress_enhancer",
     applicable_types |-> <<"wordpress">>]

PLUGINS == <<WordPressPlugin>>

\* Bound of the model: the longest registry
MaxPlugins == 2

\* Plugins a registry may hold besides WordPressPlugin (line 1216: "Add more plugins
\* here as needed"): instances of the base class and of subclasses
PluginPool ==
    { WordPressPlugin,
      [cls |-> "DesignSchemeExtractorPlugin", plugin_name |-> "base_plugin",
       applicable_types |-> <<"general", "blog">>],
      [cls |-> "DesignSchemeExtractorPlugin", plugin_name |-> "untyped", applicable_types |-> None],
      [cls |-> "TaggingPlugin", plugin_name |-> "tagger", applicable_types |-> <<"wordpress", "general">>],
      [cls |-> "TaggingPlugin", plugin_name |-> "blog_tagger", applicable_types |-> <<"blog">>],
      [cls |-> "RaisingPlugin", plugin_name |-> "raiser", applicable_types |-> <<"wordpress", "blog">>] }

Registries == UNION { [1..n -> PluginPool] : n \in 0..MaxPlugins }

H_empty == <<>>
H_theme == <<"/","W","P","-","c","o","n","t","e","n","t","/","t","h","e","m","e","s","/","/",
             "w","p","-","c","o","n","t","e","n","t","/","t","h","e","m","e","s","/","A","s","t","r","a","/","s",".","c","s","s">>  \* '/WP-content/themes//wp-content/themes/Astra/s.css'
H_wp_no_theme == <<"w","p","-","c","o","n","t","e","n","t","/","t","h","e","m","e","s","/">>  \* 'wp-content/themes/'

\* html_content: three pages, and None (no content was passed)
PluginHtml == { H_empty, H_theme, H_wp_no_theme, None }

\* The driver handed to the plugins: None, or a session whose page has no sidebar, a
\* visible sidebar, or whose find_elements raises
PluginDrivers ==
    { [present |-> FALSE, sidebar |-> "none"], [present |-> TRUE, sidebar |-> "none"],
      [present |-> TRUE, sidebar |-> "visible"], [present |-> TRUE, sidebar |-> "raises"] }

\* A schema as generate_design_schema returns it, and the empty mapping
SampleDescriptor ==
    [url |-> "https://example.org", now |-> 1,
     colors |-> ColorsOfLen(3),
     typography |-> [headings |-> EmptyDict, body |-> [font_family |-> F_arial]],
     layout |-> [has_grid_system |-> TRUE, container_width |-> 1200],
     components |-> [buttons |-> [border_radius |-> S_4px], cards |-> EmptyDict,
                     navigation |-> EmptyDict],
     images |-> [has_svg_icons |-> TRUE, has_icon_font |-> FALSE, image_style |-> EmptyDict]]

PluginSchemas == { DesignSchema(SampleDescriptor), EmptyDict }

WebsiteTypes == { "wordpress", "general", "blog" }

NoPluginResult ==
    [design_schema |-> EmptyDict, caller_schema |-> EmptyDict, aliased |-> TRUE,
     applied_plugins |-> <<>>, calls |-> <<>>]

PluginCalls ==
    [fn : {"enhance_with_plugins"}, pc : {"input"}, design_schema : PluginSchemas,
     website_type : WebsiteTypes, html_content : PluginHtml, driver : PluginDrivers,
     plugins : Registries, ret : {NoPluginResult}]

CallIdle == call = [fn |-> "none", pc |-> "idle"]

----------------------------------------------------------------------------
(* determine_website_type: lines 1079-1139 *)

S_class_attr == <<"c","l","a","s","s","=","\"">>  \* 'class="'

\* lines 1092-1108: cms_patterns in insertion order; each pattern is an alternation of
\* literals, and for tailwind and bootstrap of class="[^"]*(?:...) as well
cms_patterns ==
    <<
      [type_key |-> "wordpress",
       literals |-> {<<"w","p","-","c","o","n","t","e","n","t">>, <<"w","o","r","d","p","r","e","s","s">>, <<"w","p","-","i","n","c","l","u","d","e","s">>},
       class_alts |-> {}],
      [type_key |-> "shopify",
       literals |-> {<<"c","d","n",".","s","h","o","p","i","f","y",".","c","o","m">>, <<"m","y","s","h","o","p","i","f","y",".","c","o","m">>},
       class_alts |-> {}],
      [type_key |-> "wix",
       literals |-> {<<"w","i","x",".","c","o","m">>, <<"w","i","x","s","t","a","t","i","c",".","c","o","m">>, <<"w","i","x","s","i","t","e",".","c","o","m">>},
       class_alts |-> {}],
      [type_key |-> "squarespace",
       literals |-> {<<"s","q","u","a","r","e","s","p","a","c","e",".","c","o","m">>, <<"s","t","a","t","i","c","1",".","s","q","u","a","r","e","s","p","a","c","e",".","c","o","m">>},
       class_alts |-> {}],
      [type_key |-> "webflow",
       literals |-> {<<"w","e","b","f","l","o","w",".","i","o">>, <<"w","e","b","f","l","o","w",".","c","o","m">>},
       class_alts |-> {}],
      [type_key |-> "joomla",
       literals |-> {<<"j","o","o","m","l","a">>, <<"c","o","m","_","c","o","n","t","e","n","t">>},
       class_alts |-> {}],
      [type_key |-> "drupal",
       literals |-> {<<"d","r","u","p","a","l",".","j","s">>, <<"s","i","t","e","s","/","d","e","f","a","u","l","t","/","f","i","l","e","s">>},
       class_alts |-> {}],
      [type_key |-> "tailwind",
       literals |-> {<<"t","a","i","l","w","i","n","d","c","s","s">>, <<"t","a","i","l","w","i","n","d",".","c","s","s">>},
       class_alts |-> {<<"f","l","e","x">>, <<"g","r","i","d">>, <<"p","-">>, <<"m","-">>, <<"t","e","x","t","-">>, <<"b","g","-">>}],
      [type_key |-> "bootstrap",
       literals |-> {<<"b","o","o","t","s","t","r","a","p",".","m","i","n",".","c","s","s">>, <<"b","o","o","t","s","t","r","a","p",".","b","u","n","d","l","e",".","m","i","n",".","j","s">>},
       class_alts |-> {<<"c","o","n","t","a","i","n","e","r">>, <<"r","o","w">>, <<"c","o","l","-">>}],
      [type_key |-> "react",
       literals |-> {<<"r","e","a","c","t","-","r","o","o","t">>, <<"d","a","t","a","-","r","e","a","c","t","i","d">>},
       class_alts |-> {}],
      [type_key |-> "vue",
       literals |-> {<<"d","a","t","a","-","v","-">>},
       class_alts |-> {}],
      [type_key |-> "angular",
       literals |-> {<<"n","g","-","v","e","r","s","i","o","n">>},
       class_alts |-> {}],
      [type_key |-> "material",
       literals |-> {<<"m","a","t","e","r","i","a","l","-","d","e","s","i","g","n">>, <<"m","d","l","-">>, <<"m","u","i","-">>},
       class_alts |-> {}]
    >>

\* line 1119
ecommerce_patterns ==
    {<<"c","a","r","t">>, <<"c","h","e","c","k","o","u","t">>, <<"p","r","o","d","u","c","t">>, <<"s","h","o","p">>, <<"s","t","o","r","e">>, <<"p","r","i","c","e">>, <<"a","d","d"," ","t","o"," ","c","a","r","t">>, <<"w","o","o","c","o","m","m","e","r","c","e">>}

\* line 1124
blog_patterns ==
    {<<"b","l","o","g">>, <<"a","r","t","i","c","l","e">>, <<"p","o","s","t">>, <<"a","u","t","h","o","r">>, <<"c","o","m","m","e","n","t">>, <<"c","a","t","e","g","o","r","y">>, <<"a","r","c","h","i","v","e">>}

S_dot_gov == <<".","g","o","v">>
S_dot_edu == <<".","e","d","u">>
S_dot_org == <<".","o","r","g">>


LowerSet == Range(LowerChars)

\* The stretch of [^"]* from position b: up to the next double quote
ClassRun(low, b) ==
    LET stops == { j \in b..Len(low) : low[j] = "\"" }
    IN SubSeq(low, b, IF stops = {} THEN Len(low) ELSE Min(stops) - 1)

\* line 1113: re.search(pattern, html_content, re.IGNORECASE) for an entry of
\* cms_patterns, on low = html_content lowered
SearchPattern(p, low) ==
    \/ \E l \in p.literals : Contains(low, l)
    \/ /\ p.class_alts /= {}
       /\ \E i \in 1..(Len(low) - Len(S_class_attr) + 1) :
             /\ SubSeq(low, i, i + Len(S_class_attr) - 1) = S_class_attr
             /\ \E a \in p.class_alts : Contains(ClassRun(low, i + Len(S_class_attr)), a)

\* lines 1120, 1125: re.search of an alternation of literals, re.IGNORECASE
SearchAny(literals, low) == \E l \in literals : Contains(low, l)

\* urllib.parse.urlparse: what follows the scheme, if url starts with one
UrlRest(url) ==
    LET colons == { i \in 1..Len(url) : url[i] = ":" }
    IN IF colons = {} THEN url
       ELSE LET c == Min(colons)
            IN IF /\ c > 1
                  /\ LowerChar(url[1]) \in LowerSet
                  /\ \A j \in 1..(c - 1) :
                        LowerChar(url[j]) \in LowerSet \cup DigitSet \cup {"+", "-", "."}
               THEN SubSeq(url, c + 1, Len(url))
               ELSE url

\* line 1131: urlparse(url).netloc
Netloc(url) ==
    LET rest == UrlRest(url)
    IN IF StartsWith(rest, <<"/", "/">>)
       THEN LET stops == { j \in 3..Len(rest) : rest[j] \in {"/", "?", "#"} }
            IN SubSeq(rest, 3, IF stops = {} THEN Len(rest) ELSE Min(stops) - 1)
       ELSE <<>>

\* urlparse raises ValueError for a netloc with one bracket and not the other
UrlparseRaises(url) == ("[" \in Range(Netloc(url))) /= ("]" \in Range(Netloc(url)))

\* Mutant of TldType: '.org' is tested first
TldType_OrgFirst(url) ==
    IF UrlparseRaises(url) THEN "general"
    ELSE LET domain == Netloc(url)
         IN IF Contains(domain, S_dot_org) THEN "organization"
            ELSE IF Contains(domain, S_dot_gov) THEN "government"
            ELSE IF Contains(domain, S_dot_edu) THEN "education"
            ELSE "general"

\* lines 1129-1139
TldType(url) ==
    IF UrlparseRaises(url) THEN "general"
    ELSE LET domain == Netloc(url)
         IN IF Contains(domain, S_dot_gov) THEN "government"
            ELSE IF Contains(domain, S_dot_edu) THEN "education"
            ELSE IF Contains(domain, S_dot_org) THEN "organization"
            ELSE "general"

\* lines 1111-1116: for type_key, pattern in cms_patterns.items(), from entry i on;
\* "" when no entry matches
RECURSIVE CmsLoop(_, _)
CmsLoop(low, i) ==
    IF i > Len(cms_patterns) THEN ""
    ELSE IF SearchPattern(cms_patterns[i], low) THEN cms_patterns[i].type_key
    ELSE CmsLoop(low, i + 1)

\* The function on the lowered page
TypeOfLowered(low, url) ==
    IF CmsLoop(low, 1) /= "" THEN CmsLoop(low, 1)
    ELSE IF SearchAny(ecommerce_patterns, low) THEN "ecommerce"
    ELSE IF SearchAny(blog_patterns, low) THEN "blog"
    ELSE TldType(url)

determine_website_type(html_content, url) == TypeOfLowered(Lower(html_content), url)

\* Fragments of the pages determine_website_type is run on
W_wordpress == <<"W","P","-","C","o","n","t","e","n","t">>  \* WP-Content
W_shopify == <<"m","y","s","h","o","p","i","f","y",".","c","o","m">>  \* myshopify.com
W_wix == <<"w","i","x",".","c","o","m">>  \* wix.com
W_squarespace == <<"s","q","u","a","r","e","s","p","a","c","e",".","c","o","m">>  \* squarespace.com
W_webflow == <<"w","e","b","f","l","o","w",".","i","o">>  \* webflow.io
W_joomla == <<"J","o","o","m","l","a">>  \* Joomla
W_drupal == <<"d","r","u","p","a","l",".","j","s">>  \* drupal.js
W_tailwind == <<"c","l","a","s","s","=","\"","a"," ","f","l","e","x","\"">>  \* class="a flex"
W_class_closed == <<"c","l","a","s","s","=","\"","a","\""," ","r","o","w">>  \* class="a" row
W_bootstrap == <<"C","L","A","S","S","=","\"","r","o","w","\"">>  \* CLASS="row"
W_react == <<"d","a","t","a","-","r","e","a","c","t","i","d">>  \* data-reactid
W_vue == <<"d","a","t","a","-","v","-">>  \* data-v-
W_angular == <<"n","g","-","v","e","r","s","i","o","n">>  \* ng-version
W_material == <<"m","u","i","-">>  \* mui-
W_ecommerce == <<"C","a","r","t">>  \* Cart
W_blog == <<"b","l","o","g">>  \* blog
W_plain == <<"h","e","l","l","o">>  \* hello

HtmlFragments ==
    { W_wordpress, W_shopify, W_wix, W_squarespace, W_webflow, W_joomla, W_drupal, W_tailwind, W_class_closed, W_bootstrap, W_react, W_vue, W_angular, W_material, W_ecommerce, W_blog, W_plain }

U_com == <<"h","t","t","p","s",":","/","/","a",".","c","o","m","/",".","g","o","v">>  \* https://a.com/.gov
U_gov == <<"h","t","t","p","s",":","/","/","a",".","g","o","v">>  \* https://a.gov
U_edu_org == <<"h","t","t","p",":","/","/","a",".","e","d","u",".","o","r","g","/">>  \* http://a.edu.org/
U_org_gov == <<"/","/","b",".","o","r","g",".","g","o","v","?","q">>  \* //b.org.gov?q
U_org == <<"h","t","t","p","s",":","/","/","a",".","o","r","g","#","x">>  \* https://a.org#x
U_upper_gov == <<"h","t","t","p","s",":","/","/","A",".","G","O","V","/">>  \* https://A.GOV/
U_no_scheme == <<"a",".","g","o","v","/","x">>  \* a.gov/x
U_bracket == <<"h","t","t","p",":","/","/","[","a",".","g","o","v","/">>  \* http://[a.gov/

UrlPool ==
    { U_com, U_gov, U_edu_org, U_org_gov, U_org, U_upper_gov, U_no_scheme, U_bracket }


\* One call of determine_website_type
DetermineWebsiteTypeCall ==
    /\ call.fn = "determine_website_type"
    /\ call.pc = "input"
    /\ call' = [call EXCEPT !.pc = "done",
                            !.ret = determine_website_type(call.html_content, call.url)]
    /\ UNCHANGED <<colorVars, schemaVars, runVars>>

\* The pages: one fragment, or two in either order
SitePages == HtmlFragments \cup { a \o <<" ">> \o b : a \in HtmlFragments, b \in HtmlFragments }

SiteCalls ==
    [fn : {"determine_website_type"}, pc : {"input"}, html_content : SitePages,
     url : UrlPool, ret : {""}]

----------------------------------------------------------------------------
(* Artifact derivers: lines 1247-1701 *)

\* sep.join(lst)
RECURSIVE Join(_, _)
Join(lst, sep) ==
    IF lst = <<>> THEN <<>>
    ELSE IF Len(lst) = 1 THEN lst[1]
    ELSE lst[1] \o sep \o Join(Tail(lst), sep)

T_comma == <<","," ">>

\* The character U+0060 of the documentation's markdown
Backtick == "GRAVE"

\* bool(v) for a string or None
TruthyStr(v) == v /= None /\ v /= <<>>

\* bool(v) for a number or None
TruthyNum(v) == v /= NoneNum /\ v /= 0

\* lines 1276-1286
OverallStyle(style_keywords) ==
    IF style_keywords = <<>> THEN <<>>
    ELSE IF Len(style_keywords) > 1
    THEN <<"T","h","e"," ","w","e","b","s","i","t","e"," ","f","e","a","t","u","r","e","s"," ","a"," ">>
             \o Join(SubSeq(style_keywords, 1, Len(style_keywords) - 1), T_comma)
             \o <<" ","a","n","d"," ">> \o style_keywords[Len(style_keywords)] \o <<" ","d","e","s","i","g","n"," ","s","t","y","l","e",".">>
    ELSE <<"T","h","e"," ","w","e","b","s","i","t","e"," ","f","e","a","t","u","r","e","s"," ","a"," ">> \o style_keywords[1] \o <<" ","d","e","s","i","g","n"," ","s","t","y","l","e",".">>

\* lines 1289-1302
ColorScheme(c) ==
    LET primary == Get(c, "primary_color", None)
        secondary == Get(c, "secondary_color", None)
        accent == Get(c, "accent_color", None)
        bg == Get(c, "background_color", None)
        text_c == Get(c, "text_color", None)
    IN IF TruthyStr(primary) /\ TruthyStr(secondary) /\ TruthyStr(accent)
          /\ TruthyStr(bg) /\ TruthyStr(text_c)
       THEN <<"K","e","y"," ","c","o","l","o","r","s"," ","a","r","e"," ","P","r","i","m","a","r","y",":"," ">> \o primary \o <<","," ","S","e","c","o","n","d","a","r","y",":"," ">> \o secondary
                \o <<","," ","A","c","c","e","n","t",":"," ">> \o accent \o <<","," ","B","a","c","k","g","r","o","u","n","d",":"," ">> \o bg
                \o <<","," ","T","e","x","t",":"," ">> \o text_c \o <<".">>
       ELSE IF Get(c, "palette", <<>>) /= <<>>
       THEN <<"T","h","e"," ","m","a","i","n"," ","c","o","l","o","r"," ","p","a","l","e","t","t","e"," ","i","n","c","l","u","d","e","s",":"," ">> \o Join(Take(c["palette"], 5), T_comma) \o <<".",".",".">>
       ELSE <<>>

T_default == <<"d","e","f","a","u","l","t">>

\* lines 1308-1314 and 1400-1405: the font of the first of h1, h2, h3 that was
\* sampled, else the body font
FirstHeadingFont(typography, body_font) ==
    LET headings == Get(typography, "headings", EmptyDict)
    IN IF "h1" \in DOMAIN headings THEN Get(headings["h1"], "font_family", body_font)
       ELSE IF "h2" \in DOMAIN headings THEN Get(headings["h2"], "font_family", body_font)
       ELSE IF "h3" \in DOMAIN headings THEN Get(headings["h3"], "font_family", body_font)
       ELSE body_font

\* lines 1306-1321
TypographySentence(typography) ==
    LET body_font == Get(Get(typography, "body", EmptyDict), "font_family", T_default)
        heading_font == FirstHeadingFont(typography, body_font)
    IN IF Lower(heading_font) = Lower(body_font)
       THEN <<"T","y","p","o","g","r","a","p","h","y"," ","p","r","i","m","a","r","i","l","y"," ","u","s","e","s"," ","t","h","e"," ","'">> \o body_font \o <<"'"," ","f","o","n","t"," ","f","a","m","i","l","y",".">>
       ELSE <<"T","y","p","o","g","r","a","p","h","y"," ","u","s","e","s"," ","'">> \o heading_font \o <<"'"," ","f","o","r"," ","h","e","a","d","i","n","g","s"," ","a","n","d"," ","'">> \o body_font
                \o <<"'"," ","f","o","r"," ","b","o","d","y"," ","t","e","x","t",".">>

\* lines 1324-1334
LayoutSentence(layout) ==
    LET spacing_units == Get(layout, "common_spacing_units", <<>>)
        parts == (IF Get(layout, "has_grid_system", FALSE) THEN << <<"g","r","i","d","-","b","a","s","e","d"," ","l","a","y","o","u","t">> >> ELSE <<>>)
                 \o (IF TruthyNum(Get(layout, "container_width", NoneNum))
                     THEN << <<"c","o","n","t","a","i","n","e","d"," ","w","i","d","t","h"," ","(","a","r","o","u","n","d"," ">> \o DecStr(layout["container_width"]) \o <<"p","x",")">> >>
                     ELSE << <<"f","u","l","l","-","w","i","d","t","h"," ","l","a","y","o","u","t">> >>)
                 \o (IF spacing_units /= <<>>
                     THEN << <<"c","o","m","m","o","n"," ","s","p","a","c","i","n","g"," ","u","n","i","t"," ","a","r","o","u","n","d"," ">> \o spacing_units[1] >>
                     ELSE <<>>)
    IN <<"L","a","y","o","u","t"," ","i","s"," ","g","e","n","e","r","a","l","l","y"," ">> \o Join(parts, T_comma) \o <<".">>

\* lines 1338-1356
ComponentSentence(components, images) ==
    LET buttons == Get(components, "buttons", EmptyDict)
        cards == Get(components, "cards", EmptyDict)
        btn_radius == Get(buttons, "border_radius", S_0px)
        parts == (IF buttons /= EmptyDict
                  THEN << (IF TruthyStr(btn_radius) /\ btn_radius /= S_0px
                           THEN <<"r","o","u","n","d","e","d">> ELSE <<"s","h","a","r","p","-","e","d","g","e","d">>) \o <<" ","b","u","t","t","o","n","s">> >>
                  ELSE <<>>)
                 \o (IF cards /= EmptyDict
                     THEN << (IF TruthyStr(Get(cards, "box_shadow", None))
                              THEN <<"s","h","a","d","o","w","e","d">> ELSE <<"f","l","a","t">>) \o <<" ","c","a","r","d","s","/","p","a","n","e","l","s">> >>
                     ELSE <<>>)
                 \o (IF Get(images, "has_svg_icons", FALSE) THEN << <<"u","s","e","s"," ","S","V","G"," ","i","c","o","n","s">> >>
                     ELSE IF Get(images, "has_icon_font", FALSE) THEN << <<"u","s","e","s"," ","i","c","o","n"," ","f","o","n","t","s">> >>
                     ELSE <<>>)
    IN IF parts /= <<>>
       THEN <<"K","e","y"," ","c","o","m","p","o","n","e","n","t"," ","s","t","y","l","e","s"," ","i","n","c","l","u","d","e",":"," ">> \o Join(parts, T_comma) \o <<".">>
       ELSE <<"S","p","e","c","i","f","i","c"," ","c","o","m","p","o","n","e","n","t"," ","s","t","y","l","e","s"," ","w","e","r","e"," ","n","o","t"," ","p","r","o","m","i","n","e","n","t","l","y"," ","d","e","t","e","c","t","e","d",".">>

\* lines 1267-1359: descriptions
Descriptions(ai_schema) ==
    [overall_style |->
         OverallStyle(Get(Get(ai_schema, "design_summary", EmptyDict), "style_keywords", <<>>)),
     color_scheme |-> ColorScheme(Get(ai_schema, "colors", EmptyDict)),
     typography |-> TypographySentence(Get(ai_schema, "typography", EmptyDict)),
     layout_spacing |-> LayoutSentence(Get(ai_schema, "layout", EmptyDict)),
     component_styles |-> ComponentSentence(Get(ai_schema, "components", EmptyDict),
                                            Get(ai_schema, "images", EmptyDict))]

\* lines 1285-1333: the prompt_elements list
PromptElements(ai_schema) ==
    LET kw == Get(Get(ai_schema, "design_summary", EmptyDict), "style_keywords", <<>>)
        c == Get(ai_schema, "colors", EmptyDict)
        typography == Get(ai_schema, "typography", EmptyDict)
        body_font == Get(Get(typography, "body", EmptyDict), "font_family", T_default)
        heading_font == FirstHeadingFont(typography, body_font)
        layout == Get(ai_schema, "layout", EmptyDict)
    IN (IF kw /= <<>> THEN << <<"D","e","s","i","g","n"," ","S","t","y","l","e",":"," ">> \o Join(kw, T_comma) >> ELSE <<>>)
       \o (IF /\ TruthyStr(Get(c, "primary_color", None))
              /\ TruthyStr(Get(c, "secondary_color", None))
              /\ TruthyStr(Get(c, "accent_color", None))
              /\ TruthyStr(Get(c, "background_color", None))
              /\ TruthyStr(Get(c, "text_color", None))
           THEN << <<"C","o","l","o","r"," ","P","a","l","e","t","t","e",":"," ","P","r","i","m","a","r","y","(">> \o c["primary_color"] \o <<")",","," ","S","e","c","o","n","d","a","r","y","(">>
                       \o c["secondary_color"] \o <<")",","," ","A","c","c","e","n","t","(">> \o c["accent_color"]
                       \o <<")",","," ","B","a","c","k","g","r","o","u","n","d","(">> \o c["background_color"] \o <<")",","," ","T","e","x","t","(">>
                       \o c["text_color"] \o <<")">> >>
           ELSE IF Get(c, "palette", <<>>) /= <<>>
           THEN << <<"C","o","l","o","r"," ","P","a","l","e","t","t","e",":"," ">> \o Join(Take(c["palette"], 5), T_comma) >>
           ELSE <<>>)
       \o (IF Lower(heading_font) = Lower(body_font)
           THEN << <<"T","y","p","o","g","r","a","p","h","y",":"," ","U","s","e"," ","'">> \o body_font \o <<"'"," ","f","o","n","t",".">> >>
           ELSE << <<"T","y","p","o","g","r","a","p","h","y",":"," ","H","e","a","d","i","n","g","s"," ","'">> \o heading_font \o <<"'",","," ","B","o","d","y"," ","'">> \o body_font
                       \o <<"'",".">> >>)
       \o (IF Get(layout, "common_spacing_units", <<>>) /= <<>>
           THEN << <<"S","p","a","c","i","n","g",":"," ","B","a","s","e"," ","u","n","i","t"," ","~">> \o layout["common_spacing_units"][1] \o <<".">> >>
           ELSE <<>>)

\* lines 1259-1264: json.loads(json.dumps(design_schema)). The schemas of the model
\* hold mappings with string keys, lists, strings, numbers, booleans and None, which
\* the round trip gives back as equal values in a new structure.
DeepCopy(schema) == [k \in DOMAIN schema |-> schema[k]]

\* Mutant of optimize_for_ai_consumption: the section is written into the argument
optimize_for_ai_consumption_InPlace(schema, copy_fails) ==
    LET out == Put(schema, "ai_consumption",
                   [natural_language_descriptions |-> Descriptions(schema),
                    suggested_prompt_elements |-> PromptElements(schema),
                    full_palette_hex |-> Get(Get(schema, "colors", EmptyDict), "palette", <<>>)])
    IN [ret |-> out, arg |-> out, same |-> TRUE]

\* optimize_for_ai_consumption, lines 1247-1369: what it returns (ret), the content
\* of the mapping it was given when it returns (arg), and whether it returns that
\* mapping itself (same). copy_fails: json.dumps or json.loads raises.
optimize_for_ai_consumption(schema, copy_fails) ==
    IF copy_fails
    THEN [ret |-> schema, arg |-> schema, same |-> TRUE]
    ELSE LET ai_schema == DeepCopy(schema)
         IN [ret |-> Put(ai_schema, "ai_consumption",
                         [natural_language_descriptions |-> Descriptions(ai_schema),
                          suggested_prompt_elements |-> PromptElements(ai_schema),
                          full_palette_hex |->
                              Get(Get(ai_schema, "colors", EmptyDict), "palette", <<>>)]),
             arg |-> schema, same |-> FALSE]

\* One call of optimize_for_ai_consumption
OptimizeForAiCall ==
    /\ call.fn = "optimize_for_ai_consumption"
    /\ call.pc = "input"
    /\ call' = [call EXCEPT !.pc = "done",
                            !.ret = optimize_for_ai_consumption(call.design_schema,
                                                                call.copy_fails)]
    /\ UNCHANGED <<colorVars, schemaVars, runVars>>

\* The schemas optimize_for_ai_consumption is run on: what generate_design_schema
\* returns for resolver outputs with and without a palette, and the empty mapping
AiSchemas ==
    { DesignSchema(d) : d \in { x \in Descriptors :
                                   /\ Len(x.colors.palette) \in {0, 3}
                                   /\ x.components.navigation = EmptyDict
                                   /\ x.images.image_style = EmptyDict } }
    \cup { EmptyDict }

AiCalls ==
    [fn : {"optimize_for_ai_consumption"}, pc : {"input"}, design_schema : AiSchemas,
     copy_fails : BOOLEAN, ret : {[ret |-> EmptyDict, arg |-> EmptyDict, same |-> TRUE]}]

\* f'{v}' for a string or None
FmtStr(v) == IF v = None THEN <<"N","o","n","e">> ELSE v

\* s.ljust(n)
RECURSIVE Ljust(_, _)
Ljust(s, n) == IF Len(s) >= n THEN s ELSE Ljust(Append(s, " "), n)

\* lines 1584-1588: color_row(role, hex_code), '' for a missing colour
color_row(role, hex_code) ==
    IF ~TruthyStr(hex_code) THEN <<>>
    ELSE <<"|"," ">> \o Ljust(role, 16) \o <<" ","|"," ","<","d","i","v"," ","s","t","y","l","e","=","\"","b","a","c","k","g","r","o","u","n","d","-","c","o","l","o","r",":"," ">> \o hex_code
             \o <<";"," ","w","i","d","t","h",":"," ","2","0","p","x",";"," ","h","e","i","g","h","t",":"," ","2","0","p","x",";"," ","d","i","s","p","l","a","y",":"," ","i","n","l","i","n","e","-","b","l","o","c","k",";"," ","b","o","r","d","e","r",":"," ","1","p","x"," ","s","o","l","i","d"," ","#","c","c","c",";"," ","v","e","r","t","i","c","a","l","-","a","l","i","g","n",":"," ","m","i","d","d","l","e",";","\"",">","<","/","d","i","v",">"," "," "," "," "," "," ","|"," ",Backtick>>
             \o hex_code \o <<Backtick," "," "," "," "," "," "," "," "," "," "," "," "," ","|">>

\* lines 1600-1603: the swatch of one palette colour
PaletteSwatch(color) ==
    <<"<","d","i","v"," ","s","t","y","l","e","=","\"","b","a","c","k","g","r","o","u","n","d","-","c","o","l","o","r",":"," ">> \o color
        \o <<";"," ","w","i","d","t","h",":"," ","3","0","p","x",";"," ","h","e","i","g","h","t",":"," ","3","0","p","x",";"," ","d","i","s","p","l","a","y",":"," ","i","n","l","i","n","e","-","b","l","o","c","k",";"," ","m","a","r","g","i","n",":"," ","2","p","x",";"," ","b","o","r","d","e","r",":"," ","1","p","x"," ","s","o","l","i","d"," ","#","c","c","c",";"," ","v","e","r","t","i","c","a","l","-","a","l","i","g","n",":"," ","m","i","d","d","l","e",";","\""," ","t","i","t","l","e","=","\"">>
        \o color \o <<"\"",">","<","/","d","i","v",">">>

\* The properties the model's components carry, with prop.replace('_', ' ').title()
P_border_radius == [key |-> "border_radius", title |-> <<"B","o","r","d","e","r"," ","R","a","d","i","u","s">>]
P_box_shadow == [key |-> "box_shadow", title |-> <<"B","o","x"," ","S","h","a","d","o","w">>]

\* lines 1656-1669, 1680-1681: for prop, value in comp.items(): if value: a line.
\* props is the insertion order of the mapping (lines 498-507, 527-533, 581-586,
\* 715-720)
RECURSIVE PropLines(_, _)
PropLines(comp, props) ==
    IF props = <<>> THEN <<>>
    ELSE (IF TruthyStr(Get(comp, Head(props).key, None))
          THEN << <<"-"," ","*","*">> \o Head(props).title \o <<":","*","*"," ",Backtick>> \o comp[Head(props).key] \o <<Backtick>> >>
          ELSE <<>>)
         \o PropLines(comp, Tail(props))

\* lines 1654-1669: if components.get(name): heading and property lines
ComponentDump(title, comp, props) ==
    IF comp = EmptyDict THEN <<>> ELSE << title >> \o PropLines(comp, props)

HeadingLevels == <<"h1", "h2", "h3", "h4", "h5", "h6">>

\* lines 1617-1621: for tag, styles in sorted(headings.items()), from level i on
RECURSIVE HeadingDump(_, _)
HeadingDump(headings, i) ==
    IF i > Len(HeadingLevels) THEN <<>>
    ELSE (IF HeadingLevels[i] \in DOMAIN headings
          THEN << <<"#","#","#","#"," ",Backtick,"<","h">> \o << Digits[i + 1] >> \o <<">",Backtick," ","S","t","y","l","e">>,
                  <<" "," ","-"," ","*","*","F","o","n","t"," ","F","a","m","i","l","y",":","*","*"," ",Backtick>>
                      \o FmtStr(Get(headings[HeadingLevels[i]], "font_family", <<"N","/","A">>)) \o <<Backtick>>,
                  <<" "," ","-"," ","*","*","F","o","n","t"," ","S","i","z","e",":","*","*"," ",Backtick>>
                      \o FmtStr(Get(headings[HeadingLevels[i]], "font_size", <<"N","/","A">>)) \o <<Backtick>>,
                  <<" "," ","-"," ","*","*","F","o","n","t"," ","W","e","i","g","h","t",":","*","*"," ",Backtick>>
                      \o FmtStr(Get(headings[HeadingLevels[i]], "font_weight", <<"N","/","A">>)) \o <<Backtick>> >>
          ELSE <<>>)
         \o HeadingDump(headings, i + 1)

\* lines 1690-1693: f"{i+1}. {element}" for the elements from position i on
RECURSIVE NumberedLines(_, _)
NumberedLines(elements, i) ==
    IF i > Len(elements) THEN <<>>
    ELSE << DecStr(i) \o <<"."," ">> \o elements[i] >> \o NumberedLines(elements, i + 1)

\* line 1565: the AI descriptions of the schema, {} for a schema without AI view
AiInfo(schema) ==
    Get(Get(schema, "ai_consumption", EmptyDict),
        "natural_language_descriptions", EmptyDict)

\* 'N/A', the default of the field lookups of generate_documentation
T_na == <<"N","/","A">>

\* f"{'Yes' if flag else 'No'}"
YesNo(flag) == IF flag THEN <<"Y","e","s">> ELSE <<"N","o">>

\* f'{v}' for the schema version, which the model holds as the string "1.0"
VersionStr(v) == IF v = "1.0" THEN <<"1",".","0">> ELSE T_na

\* f"{d.get(key, 'N/A')}" for a numeric field
NumField(d, key) == IF key \in DOMAIN d THEN DecStr(d[key]) ELSE T_na

\* lines 1626-1627: f"- `{imp}`" for every entry
BulletLines(entries) == [i \in 1..Len(entries) |-> <<"-"," ",Backtick>> \o entries[i] \o <<Backtick>>]

\* generate_documentation, lines 1546-1701: the non-empty entries of doc_parts, which
\* line 1697 joins with newlines.
generate_documentation(schema) ==
    LET metadata == Get(schema, "metadata", EmptyDict)
        c == Get(schema, "colors", EmptyDict)
        typography == Get(schema, "typography", EmptyDict)
        layout == Get(schema, "layout", EmptyDict)
        components == Get(schema, "components", EmptyDict)
        images == Get(schema, "images", EmptyDict)
        summary == Get(schema, "design_summary", EmptyDict)
        ai_info == AiInfo(schema)
        palette == Get(c, "palette", <<>>)
        body_info == Get(typography, "body", EmptyDict)
        headings == Get(typography, "headings", EmptyDict)
        font_imports == Get(typography, "font_imports", <<>>)
        page_dims == Get(layout, "page_dimensions", EmptyDict)
        spacing == Get(layout, "common_spacing_units", <<>>)
        css_patterns == Get(components, "detected_css_patterns", <<>>)
        icon_classes == Get(images, "icon_classes_found", <<>>)
        image_style == Get(images, "image_style", EmptyDict)
        prompt_elements == Get(Get(schema, "ai_consumption", EmptyDict),
                               "suggested_prompt_elements", <<>>)
        doc_parts ==
            << <<"#"," ","D","e","s","i","g","n"," ","S","c","h","e","m","e"," ","D","o","c","u","m","e","n","t","a","t","i","o","n">>,
               <<"*","S","o","u","r","c","e"," ","U","R","L",":"," ">> \o FmtStr(Get(metadata, "source_url", T_na)) \o <<"*">>,
               <<"*","E","x","t","r","a","c","t","i","o","n"," ","D","a","t","e",":"," ">> \o FmtStr(Get(metadata, "extraction_date", T_na)) \o <<"*">>,
               <<"*","S","c","h","e","m","a"," ","V","e","r","s","i","o","n",":"," ">> \o VersionStr(Get(metadata, "schema_version", "N/A")) \o <<"*">>,
               <<"\n","#","#"," ","O","v","e","r","a","l","l"," ","S","t","y","l","e"," ","S","u","m","m","a","r","y">>,
               Get(ai_info, "overall_style",
                   Join(Get(summary, "style_keywords", << T_na >>), <<" ">>)),
               <<"\n","#","#"," ","C","o","l","o","r"," ","P","a","l","e","t","t","e">>,
               Get(ai_info, "color_scheme", <<"S","e","e"," ","d","e","t","a","i","l","s"," ","b","e","l","o","w",".">>),
               <<"\n","|"," ","R","o","l","e"," "," "," "," "," "," "," "," "," "," "," "," "," ","|"," ","C","o","l","o","r"," ","P","r","e","v","i","e","w"," ","|"," ","H","e","x"," ","C","o","d","e"," "," "," "," "," "," "," "," "," "," "," "," "," "," "," "," "," ","|">>,
               <<"|","-","-","-","-","-","-","-","-","-","-","-","-","-","-","-","-","-","-","|","-","-","-","-","-","-","-","-","-","-","-","-","-","-","-","|","-","-","-","-","-","-","-","-","-","-","-","-","-","-","-","-","-","-","-","-","-","-","-","-","-","-","|">>,
               color_row(<<"P","r","i","m","a","r","y">>, Get(c, "primary_color", None)),
               color_row(<<"S","e","c","o","n","d","a","r","y">>, Get(c, "secondary_color", None)),
               color_row(<<"A","c","c","e","n","t">>, Get(c, "accent_color", None)),
               color_row(<<"B","a","c","k","g","r","o","u","n","d">>, Get(c, "background_color", None)),
               color_row(<<"T","e","x","t">>, Get(c, "text_color", None)) >>
            \o (IF palette /= <<>>
                THEN << <<"\n","#","#","#"," ","F","u","l","l"," ","P","a","l","e","t","t","e"," ","D","e","t","e","c","t","e","d">>,
                        Join([i \in 1..Len(palette) |-> PaletteSwatch(palette[i])], <<" ">>) >>
                ELSE <<>>)
            \o << <<"\n","#","#"," ","T","y","p","o","g","r","a","p","h","y">>,
                  Get(ai_info, "typography", <<"S","e","e"," ","d","e","t","a","i","l","s"," ","b","e","l","o","w",".">>),
                  <<"\n","#","#","#"," ","B","o","d","y"," ","T","e","x","t">>,
                  <<"-"," ","*","*","F","o","n","t"," ","F","a","m","i","l","y",":","*","*"," ",Backtick>> \o FmtStr(Get(body_info, "font_family", T_na)) \o <<Backtick>>,
                  <<"-"," ","*","*","F","o","n","t"," ","S","i","z","e",":","*","*"," ",Backtick>> \o FmtStr(Get(body_info, "font_size", T_na)) \o <<Backtick>>,
                  <<"-"," ","*","*","F","o","n","t"," ","W","e","i","g","h","t",":","*","*"," ",Backtick>> \o FmtStr(Get(body_info, "font_weight", T_na)) \o <<Backtick>>,
                  <<"-"," ","*","*","L","i","n","e"," ","H","e","i","g","h","t",":","*","*"," ",Backtick>> \o FmtStr(Get(body_info, "line_height", T_na)) \o <<Backtick>> >>
            \o (IF headings /= EmptyDict
                THEN << <<"\n","#","#","#"," ","H","e","a","d","i","n","g","s">> >> \o HeadingDump(headings, 1) ELSE <<>>)
            \o (IF font_imports /= <<>>
                THEN << <<"\n","#","#","#"," ","F","o","n","t"," ","I","m","p","o","r","t","s"," ","D","e","t","e","c","t","e","d">> >> \o BulletLines(font_imports) ELSE <<>>)
            \o (IF Get(typography, "custom_fonts_detected", FALSE)
                THEN << <<"-"," ","C","u","s","t","o","m"," ","f","o","n","t","s"," ","(",Backtick,"@","f","o","n","t","-","f","a","c","e",Backtick,")"," ","d","e","t","e","c","t","e","d"," ","i","n"," ","C","S","S",".">> >> ELSE <<>>)
            \o << <<"\n","#","#"," ","L","a","y","o","u","t"," ","&"," ","S","p","a","c","i","n","g">>,
                  Get(ai_info, "layout_spacing", <<"S","e","e"," ","d","e","t","a","i","l","s"," ","b","e","l","o","w",".">>),
                  <<"-"," ","*","*","P","a","g","e"," ","D","i","m","e","n","s","i","o","n","s"," ","(","A","p","p","r","o","x",")",":","*","*"," ","W","i","d","t","h",":"," ",Backtick>> \o NumField(page_dims, "width")
                      \o <<"p","x",Backtick,","," ","H","e","i","g","h","t",":"," ",Backtick>> \o NumField(page_dims, "height") \o <<"p","x",Backtick>>,
                  <<"-"," ","*","*","C","o","n","t","a","i","n","e","r"," ","W","i","d","t","h"," ","(","D","e","t","e","c","t","e","d",")",":","*","*"," ",Backtick>>
                      \o (IF "container_width" \notin DOMAIN layout THEN T_na
                          ELSE IF TruthyNum(layout["container_width"])
                          THEN DecStr(layout["container_width"])
                          ELSE <<"F","u","l","l"," ","W","i","d","t","h">>)
                      \o <<Backtick>>,
                  <<"-"," ","*","*","G","r","i","d"," ","S","y","s","t","e","m"," ","L","i","k","e","l","y",":","*","*"," ",Backtick>> \o YesNo(Get(layout, "has_grid_system", FALSE)) \o <<Backtick>> >>
            \o (IF spacing /= <<>>
                THEN << <<"-"," ","*","*","C","o","m","m","o","n"," ","S","p","a","c","i","n","g"," ","U","n","i","t","s",":","*","*"," ",Backtick>> \o Join(spacing, T_comma) \o <<Backtick>> >>
                ELSE <<>>)
            \o << <<"\n","#","#"," ","C","o","m","p","o","n","e","n","t"," ","S","t","y","l","e","s"," ","(","S","a","m","p","l","e","d",")">>,
                  Get(ai_info, "component_styles", <<"S","e","e"," ","d","e","t","a","i","l","s"," ","b","e","l","o","w",".">>) >>
            \o ComponentDump(<<"\n","#","#","#"," ","B","u","t","t","o","n","s">>, Get(components, "buttons", EmptyDict),
                             << P_border_radius >>)
            \o ComponentDump(<<"\n","#","#","#"," ","C","a","r","d","s"," ","/"," ","P","a","n","e","l","s">>, Get(components, "cards", EmptyDict),
                             << P_box_shadow, P_border_radius >>)
            \o ComponentDump(<<"\n","#","#","#"," ","F","o","r","m"," ","I","n","p","u","t","s">>,
                             Get(Get(components, "forms", EmptyDict), "inputs", EmptyDict),
                             << P_border_radius >>)
            \o ComponentDump(<<"\n","#","#","#"," ","N","a","v","i","g","a","t","i","o","n"," ","/"," ","H","e","a","d","e","r">>,
                             Get(components, "navigation", EmptyDict), << P_box_shadow >>)
            \o (IF css_patterns /= <<>>
                THEN << <<"\n","#","#","#"," ","D","e","t","e","c","t","e","d"," ","C","S","S"," ","C","l","a","s","s"," ","P","a","t","t","e","r","n","s">>,
                        <<Backtick>> \o Join(css_patterns, T_comma) \o <<Backtick>> >>
                ELSE <<>>)
            \o << <<"\n","#","#"," ","I","m","a","g","e","s"," ","&"," ","I","c","o","n","s">>,
                  <<"-"," ","*","*","S","V","G"," ","I","c","o","n","s"," ","U","s","e","d",":","*","*"," ",Backtick>> \o YesNo(Get(images, "has_svg_icons", FALSE)) \o <<Backtick>>,
                  <<"-"," ","*","*","I","c","o","n"," ","F","o","n","t"," ","U","s","e","d",":","*","*"," ",Backtick>> \o YesNo(Get(images, "has_icon_font", FALSE)) \o <<Backtick>> >>
            \o (IF icon_classes /= <<>>
                THEN << <<"-"," ","*","*","D","e","t","e","c","t","e","d"," ","I","c","o","n"," ","C","l","a","s","s","e","s",":","*","*"," ",Backtick>> \o Join(icon_classes, T_comma) \o <<Backtick>> >>
                ELSE <<>>)
            \o (IF PropLines(image_style, << P_border_radius, P_box_shadow >>) /= <<>>
                THEN << <<"\n","#","#","#"," ","I","m","a","g","e"," ","S","t","y","l","i","n","g"," ","(","S","a","m","p","l","e","d",")">> >>
                     \o PropLines(image_style, << P_border_radius, P_box_shadow >>)
                ELSE <<>>)
            \o << <<"\n","-"," ","*","*","L","o","g","o"," ","D","e","t","e","c","t","e","d",":","*","*"," ",Backtick>> \o YesNo(Get(images, "logo_detected", FALSE)) \o <<Backtick>> >>
            \o (IF TruthyStr(Get(images, "logo_url", None))
                THEN << <<"-"," ","*","*","L","o","g","o"," ","U","R","L",":","*","*"," ",Backtick>> \o images["logo_url"] \o <<Backtick>> >> ELSE <<>>)
            \o (IF ai_info /= EmptyDict
                THEN << <<"\n","#","#"," ","A","I"," ","I","n","t","e","g","r","a","t","i","o","n"," ","G","u","i","d","e">> >>
                     \o (IF prompt_elements /= <<>>
                         THEN << <<"K","e","y"," ","e","l","e","m","e","n","t","s"," ","f","o","r"," ","A","I"," ","p","r","o","m","p","t","s",":">> >>
                              \o NumberedLines(prompt_elements, 1)
                         ELSE <<>>)
                ELSE <<>>)
    IN SelectSeq(doc_parts, LAMBDA part : part /= <<>>)

\* re.match(r'(\d+)', s).group(1): the leading run of digits of s, None without one
LeadingDigits(s) ==
    LET n == Cardinality({ k \in 1..Len(s) : \A j \in 1..k : IsDigit(s[j]) })
    IN IF n = 0 THEN None ELSE SubSeq(s, 1, n)

S_8 == <<"8">>
S_4 == <<"4">>
T_px == <<"p","x">>

\* Mutant of SpacingUnitVal: the last common spacing unit is parsed
SpacingUnitVal_Last(layout) ==
    LET spacing_units == Get(layout, "common_spacing_units", <<>>)
    IN IF spacing_units /= <<>> /\ LeadingDigits(spacing_units[Len(spacing_units)]) /= None
       THEN LeadingDigits(spacing_units[Len(spacing_units)])
       ELSE S_8

\* lines 1409-1416: spacing_unit_val
SpacingUnitVal(layout) ==
    LET spacing_units == Get(layout, "common_spacing_units", <<>>)
    IN IF spacing_units /= <<>> /\ LeadingDigits(spacing_units[1]) /= None
       THEN LeadingDigits(spacing_units[1])
       ELSE S_8

\* lines 1419-1426: border_radius_val
BorderRadiusVal(components) ==
    LET button_radius == Get(Get(components, "buttons", EmptyDict), "border_radius", None)
        card_radius == Get(Get(components, "cards", EmptyDict), "border_radius", None)
        radius_to_use == IF TruthyStr(button_radius) THEN button_radius ELSE card_radius
    IN IF TruthyStr(radius_to_use) /\ LeadingDigits(radius_to_use) /= None
       THEN LeadingDigits(radius_to_use)
       ELSE S_4

\* Python's None where a mapping is expected
NoneObj == [none |-> TRUE]

\* generate_design_code_snippets, lines 1371-1544: of each snippet the lines that
\* interpolate the spacing and radius values and the colour roles; None when the
\* body of the try raises (fails)
generate_design_code_snippets(schema, fails) ==
    IF fails THEN NoneObj
    ELSE LET c == Get(schema, "colors", EmptyDict)
             layout == Get(schema, "layout", EmptyDict)
             components == Get(schema, "components", EmptyDict)
             primary == FmtStr(Get(c, "primary_color", S_default_primary))
             spacing_unit_val == SpacingUnitVal(layout)
             spacing_unit == spacing_unit_val \o T_px
             border_radius == BorderRadiusVal(components) \o T_px
         IN [css_variables |->
                 << <<" "," ","-","-","c","o","l","o","r","-","p","r","i","m","a","r","y",":"," ">> \o primary \o <<";">>,
                    <<" "," ","-","-","s","p","a","c","i","n","g","-","u","n","i","t",":"," ">> \o spacing_unit \o <<";">>,
                    <<" "," ","-","-","b","o","r","d","e","r","-","r","a","d","i","u","s",":"," ">> \o border_radius \o <<";">> >>,
             tailwind_config |->
                 << <<" "," "," "," "," "," "," "," ","p","r","i","m","a","r","y",":"," ","'">> \o primary \o <<"'",",">>,
                    <<" "," "," "," "," "," "," "," ","'","u","n","i","t","'",":"," ","'">> \o spacing_unit \o <<"'",",">>,
                    <<" "," "," "," "," "," "," "," ","'","x","s","'",":"," ",Backtick,"c","a","l","c","(","$","{">> \o spacing_unit_val \o <<"}","p","x"," ","*"," ","0",".","2","5",")",Backtick,",">>,
                    <<" "," "," "," "," "," "," "," ","'","m","d","'",":"," ","'">> \o spacing_unit \o <<"'",",">>,
                    <<" "," "," "," "," "," "," "," ","D","E","F","A","U","L","T",":"," ","'">> \o border_radius \o <<"'",",">> >>,
             styled_components_theme |->
                 << <<" "," "," "," ","p","r","i","m","a","r","y",":"," ","'">> \o primary \o <<"'",",">>,
                    <<" "," "," "," ","u","n","i","t",":"," ","'">> \o spacing_unit \o <<"'",",">>,
                    <<" "," "," "," ","x","s",":"," ",Backtick,"c","a","l","c","(">> \o spacing_unit \o <<" ","*"," ","0",".","2","5",")",Backtick,",">>,
                    <<" "," ","b","o","r","d","e","r","R","a","d","i","u","s",":"," ","'">> \o border_radius \o <<"'",",">> >>]

\* One call of generate_design_code_snippets
GenerateCodeSnippetsCall ==
    /\ call.fn = "generate_design_code_snippets"
    /\ call.pc = "input"
    /\ call' = [call EXCEPT !.pc = "done",
                            !.ret = generate_design_code_snippets(call.design_schema, FALSE)]
    /\ UNCHANGED <<colorVars, schemaVars, runVars>>

S_16px == <<"1","6","p","x">>
S_0_5px == <<"0",".","5","p","x">>
S_24px == <<"2","4","p","x">>
S_dot5px == <<".","5","p","x">>
S_inherit_radius == <<"i","n","h","e","r","i","t">>
S_12_5px == <<"1","2",".","5","p","x"," ","4","p","x">>

\* analyze_layout: common_spacing_units, the most common positive pixel values first;
\* '.5px' stands for an entry without a leading integer
SpacingChoices ==
    { <<>>, << S_16px, S_8px >>, << S_0_5px, S_24px >>, << S_dot5px, S_16px >>, << S_8px >> }

\* detect_component_patterns: border_radius is the computed borderRadius, or None
\* when get_style could not read it
RadiusChoices == { None, <<>>, S_0px, S_4px, S_50pct, S_inherit_radius, S_12_5px }

CardRadiusChoices == { None, S_0px, S_8px }

SnippetSchemas ==
    { [DesignSchema(SampleDescriptor) EXCEPT
           !.layout = [has_grid_system |-> TRUE, container_width |-> 1200,
                       common_spacing_units |-> sp],
           !.components = [buttons |-> b, cards |-> cd, navigation |-> EmptyDict]] :
        sp \in SpacingChoices,
        b \in { EmptyDict } \cup { [border_radius |-> r] : r \in RadiusChoices },
        cd \in { EmptyDict } \cup { [border_radius |-> r, box_shadow |-> None] : r \in CardRadiusChoices } }

SnippetCalls ==
    [fn : {"generate_design_code_snippets"}, pc : {"input"}, design_schema : SnippetSchemas,
     ret : {NoneObj}]

----------------------------------------------------------------------------
(* detect_component_patterns, the CSS class patterns: lines 590-623 *)

S_class_eq == <<"c","l","a","s","s","=">>
QuoteChars == {"\"", "'"}
\* the characters str.split() splits on that the model's pages use
Whitespace == {" ", "\t", "\n"}

\* line 592, class=["\']([^"\']+)["\'] tried at position i of html: the position of the
\* closing quote, 0 when the pattern does not match there
MatchEnd(html, i) ==
    IF /\ i + 8 <= Len(html)
       /\ SubSeq(html, i, i + 5) = S_class_eq
       /\ html[i + 6] \in QuoteChars
       /\ html[i + 7] \notin QuoteChars
       /\ \E j \in (i + 8)..Len(html) : html[j] \in QuoteChars
    THEN Min({ j \in (i + 8)..Len(html) : html[j] \in QuoteChars })
    ELSE 0

\* line 594, class_pattern.findall(html_content) from position pos on: the groups of
\* the non-overlapping matches, leftmost first
RECURSIVE findall(_, _)
findall(html, pos) ==
    LET starts == { i \in pos..Len(html) : MatchEnd(html, i) > 0 }
    IN IF starts = {} THEN <<>>
       ELSE LET i == Min(starts)
                j == MatchEnd(html, i)
            IN << SubSeq(html, i + 7, j - 1) >> \o findall(html, j + 1)

\* line 599: [c.strip() for c in match.split()], the maximal runs without whitespace
Split(s) ==
    LET starts == { i \in 1..Len(s) : s[i] \notin Whitespace
                                        /\ (i = 1 \/ s[i - 1] \in Whitespace) }
        EndOf(i) == Min({ j \in i..Len(s) : j = Len(s) \/ s[j + 1] \in Whitespace })
    IN [n \in 1..Cardinality(starts) |->
           LET i == CHOOSE k \in starts : Cardinality({ m \in starts : m < k }) = n - 1
           IN SubSeq(s, i, EndOf(i))]

\* lines 596-600: the tokens of every match, in document order
RECURSIVE AllClasses(_)
AllClasses(class_matches) ==
    IF class_matches = <<>> THEN <<>>
    ELSE Split(Head(class_matches)) \o AllClasses(Tail(class_matches))

\* line 604, Counter(all_classes): the distinct tokens in the order of their first
\* occurrence, each with its count
Counter(all_classes) ==
    LET first == { i \in 1..Len(all_classes) :
                       \A k \in 1..(i - 1) : all_classes[k] /= all_classes[i] }
    IN [n \in 1..Cardinality(first) |->
           LET i == CHOOSE k \in first : Cardinality({ m \in first : m < k }) = n - 1
           IN [cls |-> all_classes[i],
               count |-> Cardinality({ k \in 1..Len(all_classes) :
                                          all_classes[k] = all_classes[i] })]]

\* line 612: the limit of most_common
MostCommonLimit == 50
\* line 614: count > 5
MinCount == 5
\* line 617: len(cls) > 2
MinLen == 2
\* line 621: common_patterns[:15]
PatternCap == 15

\* Mutant of most_common: every class of the counter, by descending count
most_common_All(class_counter, n) ==
    [r \in 1..Len(class_counter) |->
        class_counter[CHOOSE k \in 1..Len(class_counter) :
            Cardinality({ j \in 1..Len(class_counter) :
                \/ class_counter[j].count > class_counter[k].count
                \/ class_counter[j].count = class_counter[k].count /\ j < k }) = r - 1]]

\* line 612, class_counter.most_common(n): the n entries with the highest counts, by
\* descending count, entries with equal counts in the order of the counter
most_common(class_counter, n) ==
    [r \in 1..(IF Len(class_counter) < n THEN Len(class_counter) ELSE n) |->
        class_counter[CHOOSE k \in 1..Len(class_counter) :
            Cardinality({ j \in 1..Len(class_counter) :
                \/ class_counter[j].count > class_counter[k].count
                \/ class_counter[j].count = class_counter[k].count /\ j < k }) = r - 1]]

\* line 609
utility_indicators ==
    << <<"t","e","x","t","-">>, <<"b","g","-">>, <<"p","-">>, <<"m","-">>, <<"f","l","e","x">>, <<"g","r","i","d">>, <<"b","o","r","d","e","r">>, <<"r","o","u","n","d","e","d">>,
       <<"w","-">>, <<"h","-">>, <<"f","o","n","t","-">>, <<"s","h","a","d","o","w">>, <<"i","t","e","m">>, <<"c","o","n","t","a","i","n","e","r">>, <<"r","o","w">>, <<"c","o","l","-">>,
       <<"n","a","v","-">>, <<"b","t","n","-">>, <<"c","a","r","d","-">>, <<"f","o","r","m","-">> >>

\* lines 614-618: the three conditions on an entry of the counter
Qualifies(entry) ==
    /\ entry.count > MinCount
    /\ \E n \in 1..Len(utility_indicators) : Contains(entry.cls, utility_indicators[n])
    /\ Len(entry.cls) > MinLen

\* lines 607-621: common_patterns[:15] for a counter
common_patterns(class_counter) ==
    LET top == most_common(class_counter, MostCommonLimit)
        kept == SelectSeq(top, Qualifies)
    IN Take([n \in 1..Len(kept) |-> kept[n].cls], PatternCap)

\* lines 590-623: components["detected_css_patterns"] for a page; it stays the empty
\* list of line 470 for a page without class tokens
detected_css_patterns(html) ==
    CHOOSE patterns \in { common_patterns(class_counter) :
                              class_counter \in { Counter(AllClasses(findall(html, 1))) } } : TRUE

\* One call of detect_component_patterns, for the CSS class patterns
DetectCssPatternsCall ==
    /\ call.fn = "detect_component_patterns"
    /\ call.pc = "input"
    /\ call' = [call EXCEPT !.pc = "done",
                            !.ret = detected_css_patterns(call.html_content)]
    /\ UNCHANGED <<colorVars, schemaVars, runVars>>

(* The pages detect_component_patterns is run on *)

\* n copies of s
RECURSIVE Repeat(_, _)
Repeat(s, n) == IF n = 0 THEN <<>> ELSE s \o Repeat(s, n - 1)

\* <i class="value"> with the quote character q
ClassTag(value, q) == <<"<","i"," ","c","l","a","s","s","=">> \o << q >> \o value \o << q, ">" >>

K_btn_a == <<"b","t","n","-","a">>
K_card_b == <<"c","a","r","d","-","b">>
K_p == <<"p","-">>
K_hero == <<"h","e","r","o">>

\* Pages of four tokens, each in a run of tags of its own, and optionally one tag
\* that holds two of them, separated by a tab and a space
FourTokenPages ==
    { (IF multi THEN ClassTag(K_hero \o << "\t", " " >> \o K_btn_a, q) ELSE <<>>)
      \o Repeat(ClassTag(K_card_b, q), n_card)
      \o Repeat(ClassTag(K_btn_a, q), n_btn)
      \o Repeat(ClassTag(K_p, q), n_p)
      \o Repeat(ClassTag(K_hero, q), n_hero) :
        multi \in BOOLEAN, q \in QuoteChars, n_card \in {0, 6, 7}, n_btn \in {0, 5, 6, 7},
        n_p \in {0, 7}, n_hero \in {0, 7} }

\* One tag with the first n letters as classes
Letters == LowerChars \o UpperChars
LetterClasses(n) == Join([k \in 1..n |-> << Letters[k] >>], << " " >>)

\* A page on which n one-letter classes occur 7 times each and btn-a 6 times
CrowdedPage(n) ==
    Repeat(ClassTag(LetterClasses(n), "\""), 7) \o Repeat(ClassTag(K_btn_a, "\""), 6)

\* A page on which 17 qualifying classes occur 6 times each
ManyPatternsPage ==
    Repeat(ClassTag(Join([k \in 1..17 |-> <<"b","t","n","-">> \o << Letters[k] >>], << " " >>), "'"), 6)

\* Pages with an empty class attribute and with a class attribute inside another
OddPages ==
    { <<"<","i"," ","c","l","a","s","s","=","\"","\"",">">> \o Repeat(ClassTag(K_btn_a, "\""), 6),
      Repeat(<<"<","i"," ","c","l","a","s","s","=","\"","x"," ","c","l","a","s","s","=","\"","b","t","n","-","a","\"",">">>, 6),
      <<"<","p",">","n","o"," ","c","l","a","s","s","e","s","<","/","p",">">> }

CssPages ==
    FourTokenPages \cup OddPages
    \cup { CrowdedPage(MostCommonLimit - 1), CrowdedPage(MostCommonLimit), ManyPatternsPage }

CssCalls ==
    [fn : {"detect_component_patterns"}, pc : {"input"}, html_content : CssPages,
     ret : {<<>>}]

----------------------------------------------------------------------------
(* analyze_layout, the common spacing units: lines 420-450 *)

\* driver.execute_script raising for one style property of an element
ScriptRaises == << "Raises" >>

\* line 424: the slice of the elements found
SpacingSampleLimit == 100
\* line 446: most_common(5)
SpacingCap == 5

\* value.replace('px', '')
RECURSIVE RemovePx(_)
RemovePx(s) ==
    IF Len(s) < 2 THEN s
    ELSE IF SubSeq(s, 1, 2) = T_px THEN RemovePx(SubSeq(s, 3, Len(s)))
    ELSE << Head(s) >> \o RemovePx(Tail(s))

\* float(s) for the decimal notations [+-]digits[.digits]: "raises" for another
\* string, else "positive", "zero" or "negative"
FloatSign(s) ==
    LET signed == s /= <<>> /\ Head(s) \in {"+", "-"}
        body == IF signed THEN Tail(s) ELSE s
        dots == { i \in 1..Len(body) : body[i] = "." }
        digits == { i \in 1..Len(body) : IsDigit(body[i]) }
    IN IF \/ digits = {}
          \/ Cardinality(dots) > 1
          \/ \E i \in 1..Len(body) : i \notin dots /\ i \notin digits
       THEN "raises"
       ELSE IF \A i \in digits : body[i] = "0" THEN "zero"
       ELSE IF signed /\ Head(s) = "-" THEN "negative"
       ELSE "positive"

\* value.endswith('px')
EndsWithPx(value) == Len(value) >= 2 /\ SubSeq(value, Len(value) - 1, Len(value)) = T_px

\* Mutant of KeepsValue: the value is not compared with 0
KeepsValue_AnyPx(value) ==
    value /= None /\ value /= <<>> /\ EndsWithPx(value)

\* line 439: value and value.endswith('px') and float(value.replace('px', '')) > 0,
\* for a value for which float does not raise
KeepsValue(value) ==
    /\ value /= None /\ value /= <<>>
    /\ EndsWithPx(value)
    /\ FloatSign(RemovePx(value)) = "positive"

\* line 439 raises for this value: float of what is left of it is a ValueError
ValueRaises(value) ==
    \/ value = ScriptRaises
    \/ /\ value /= None /\ value /= <<>>
       /\ EndsWithPx(value)
       /\ FloatSign(RemovePx(value)) = "raises"

\* lines 436-440 for one element, from style property k on: the samples it adds; the
\* except clause of line 441 ends the element at the first property that raises
RECURSIVE ElementSamples(_, _)
ElementSamples(styles, k) ==
    IF k > Len(styles) \/ ValueRaises(styles[k]) THEN <<>>
    ELSE (IF KeepsValue(styles[k]) THEN << styles[k] >> ELSE <<>>)
         \o ElementSamples(styles, k + 1)

\* lines 426-442: the samples of the elements, in document order; an element that
\* is not displayed, or whose is_displayed raises, adds none
RECURSIVE spacing_samples(_)
spacing_samples(elements) ==
    IF elements = <<>> THEN <<>>
    ELSE (IF Head(elements).displayed = "yes"
          THEN ElementSamples(Head(elements).styles, 1) ELSE <<>>)
         \o spacing_samples(Tail(elements))

\* lines 420-450: layout_info["common_spacing_units"] for the elements a page answers
\* find_elements with; [] when find_elements raises
common_spacing_units(page) ==
    IF page.find_raises THEN <<>>
    ELSE CHOOSE units \in
             { [n \in 1..Len(top) |-> top[n].cls] :
                   top \in { most_common(Counter(spacing_samples(
                                 Take(page.elements, SpacingSampleLimit))), SpacingCap) } } : TRUE

\* One call of analyze_layout, for the spacing units
AnalyzeSpacingCall ==
    /\ call.fn = "analyze_layout"
    /\ call.pc = "input"
    /\ call' = [call EXCEPT !.pc = "done", !.ret = common_spacing_units(call.page)]
    /\ UNCHANGED <<colorVars, schemaVars, runVars>>

(* The pages analyze_layout is run on *)

S_1px == <<"1","p","x">>
S_2px == <<"2","p","x">>
S_3px == <<"3","p","x">>
S_5px == <<"5","p","x">>
S_6px == <<"6","p","x">>
S_neg4px == <<"-","4","p","x">>
S_auto == <<"a","u","t","o">>
S_calc_px == <<"c","a","l","c","(","1","p","x",")","p","x">>

\* The eight values of styles_to_check (lines 433-434) of the sampled elements
StylePool ==
    { << S_8px, S_8px, S_16px, S_0px, S_0px, S_0px, S_0px, S_0px >>,
      << S_16px, S_16px, S_8px, S_24px, S_0px, S_auto, None, <<>> >>,
      << S_1px, S_2px, S_3px, S_4px, S_5px, S_6px, S_0px, S_0px >>,
      << S_neg4px, S_0_5px, S_0px, S_auto, S_24px, S_24px, S_24px, S_0px >>,
      << S_24px, ScriptRaises, S_8px, S_8px, S_8px, S_8px, S_8px, S_8px >>,
      << S_6px, S_calc_px, S_6px, S_6px, S_6px, S_6px, S_6px, S_6px >> }

ElementPool ==
    [displayed : {"yes"}, styles : StylePool]
    \cup [displayed : {"no", "raises"}, styles : { << S_3px, S_3px, S_3px, S_3px, S_3px, S_3px, S_3px, S_3px >> }]

\* Bound of the model: the longest list of elements of the pages built from ElementPool
MaxElements == 2

RECURSIVE ElementLists(_)
ElementLists(n) ==
    IF n = 0 THEN { <<>> }
    ELSE ElementLists(n - 1)
         \cup { Append(l, e) : l \in { x \in ElementLists(n - 1) : Len(x) = n - 1 },
                               e \in ElementPool }

\* A page with one element more than the slice of line 424 takes; only the last
\* element has the value 5px
LongPage ==
    [k \in 1..(SpacingSampleLimit + 1) |->
        [displayed |-> "yes",
         styles |-> IF k <= SpacingSampleLimit
                    THEN << S_8px, S_0px, S_0px, S_0px, S_0px, S_0px, S_0px, S_0px >>
                    ELSE << S_5px, S_5px, S_5px, S_5px, S_5px, S_5px, S_5px, S_5px >>]]

SpacingPages ==
    [find_raises : BOOLEAN, elements : ElementLists(MaxElements) \cup { LongPage }]

SpacingCalls ==
    [fn : {"analyze_layout"}, pc : {"input"}, page : SpacingPages, ret : {<<>>}]

----------------------------------------------------------------------------
(* fetch_webpage and extract_design_scheme_extended *)

Resolvers == <<"colors", "typography", "layout", "components", "images">>

\* Mutant of ProgramOrder: validation right after assembly, then classification
ProgramOrder_ValidateFirst ==
    Resolvers \o <<"assemble", "validate", "classify", "plugins", "ai", "code", "docs", "save">>

\* The steps of extract_design_scheme_extended after the fetch, in the order of
\* lines 1743-1861
ProgramOrder ==
    <<"classify">> \o Resolvers \o <<"assemble", "plugins", "validate", "ai", "code", "docs", "save">>

\* Steps whose exceptions reach the try of extract_design_scheme_extended; the
\* others (enhance_with_plugins, validate_schema, the three derivers) catch their own
Propagating == {"classify", "assemble", "save"} \cup Range(Resolvers)

\* the position after step st
NextStep(st) ==
    LET i == CHOOSE k \in 1..Len(ProgramOrder) : ProgramOrder[k] = st
    IN IF i < Len(ProgramOrder) THEN ProgramOrder[i + 1] ELSE "return"

\* Mutant of FinallyQuits: the finally block does not close the driver
FinallyQuits_Never(d) == FALSE

\* line 1878: if driver
FinallyQuits(d) == d /= "None"

\* Python's None where the documentation, a list of lines, is expected
NoneDoc == << None >>

\* lines 1727-1732
NoResults ==
    [design_schema |-> NoneObj, ai_optimized_schema |-> NoneObj,
     documentation |-> NoneDoc, code_snippets |-> NoneObj]

\* No deriver has been called
NoneGiven == [ai |-> NoneObj, code |-> NoneObj, docs |-> NoneObj]

\* Step st raises in this run
Raises(st) == env.raise_at = st

\* Step st runs: it is recorded, and it either raises into the except clause of
\* line 1866 or completes with results new
RunStep(st, new) ==
    /\ pc = st
    /\ trace' = Append(trace, st)
    /\ IF Raises(st) /\ st \in Propagating
       THEN pc' = "except" /\ UNCHANGED results
       ELSE pc' = NextStep(st) /\ results' = new
    /\ UNCHANGED <<given, env, driver, session, colorVars, schemaVars, call>>

\* A deriver runs on the argument arg; it catches what it raises
RunDeriver(st, arg, new) ==
    /\ pc = st
    /\ trace' = Append(trace, st)
    /\ given' = [given EXCEPT ![st] = arg]
    /\ pc' = NextStep(st)
    /\ results' = new
    /\ UNCHANGED <<env, driver, session, colorVars, schemaVars, call>>

\* An optional step is switched off
SkipStep(st) ==
    /\ pc = st
    /\ pc' = NextStep(st)
    /\ UNCHANGED <<trace, results, given, env, driver, session, colorVars, schemaVars, call>>

\* fetch_webpage, lines 27-77, called at line 1740
FetchWebpage ==
    /\ pc = "fetch"
    /\ trace' = Append(trace, "fetch")
    /\ IF env.selenium = "no_session"
       THEN \* lines 53-54 raise: no driver exists
            /\ session' = session
            /\ driver' = driver
            /\ pc' = "except"
       ELSE IF env.selenium = "get_raises"
       THEN \* lines 57-65 raise: line 76 quits, line 77 raises
            /\ session' = [created |-> TRUE, quit_calls |-> 1]
            /\ driver' = driver
            /\ pc' = "except"
       ELSE IF ~env.rendered_html /\ ~env.static_html
       THEN \* line 71 quits, line 72 raises into line 75, line 76 quits again
            /\ session' = [created |-> TRUE, quit_calls |-> 2]
            /\ driver' = driver
            /\ pc' = "except"
       ELSE \* line 74
            /\ session' = [created |-> TRUE, quit_calls |-> 0]
            /\ driver' = "session"
            /\ pc' = ProgramOrder[1]
    /\ UNCHANGED <<env, results, given, colorVars, schemaVars, call>>

\* The page of this run: html_content as fetch_webpage returns it, and what the
\* resolvers read from the page
html_content == env.page.html_content

\* line 1745
website_type == determine_website_type(html_content, env.page.url)

DetermineWebsiteType == RunStep("classify", results)

\* lines 1750-1758
Resolve(r) == RunStep(r, results)

\* The resolver outputs of the run, lines 1750-1758: one page's worth of the mappings
\* the five analyze_* functions return, with every field validate_schema requires
S_now == <<"2","0","2","4","-","0","1","-","0","1","T","0","0",":","0","0",":","0","0">>
S_400 == <<"4","0","0">>
S_normal == <<"n","o","r","m","a","l">>

PageDescriptor ==
    [url |-> env.page.url, now |-> S_now,
     colors |-> ColorsOfLen(3),
     typography |-> [headings |-> EmptyDict,
                     body |-> [font_family |-> F_arial, font_size |-> S_16px,
                               font_weight |-> S_400, line_height |-> S_normal],
                     font_imports |-> <<>>, custom_fonts_detected |-> FALSE],
     layout |-> [page_dimensions |-> [width |-> 1440, height |-> 900],
                 container_width |-> 1200, has_grid_system |-> TRUE,
                 common_spacing_units |-> << S_16px, S_8px >>],
     components |-> [buttons |-> [border_radius |-> S_4px], cards |-> EmptyDict,
                     forms |-> [inputs |-> EmptyDict], navigation |-> EmptyDict,
                     detected_css_patterns |-> <<>>],
     images |-> [has_svg_icons |-> TRUE, has_icon_font |-> FALSE,
                 icon_classes_found |-> <<>>, image_style |-> EmptyDict,
                 logo_detected |-> FALSE, logo_url |-> None]]

\* lines 1763-1764
GenerateSchema ==
    RunStep("assemble", [results EXCEPT !.design_schema = DesignSchema(PageDescriptor)])

\* The driver as the plugins see it; a raise in the plugin step is find_elements
\* raising, which WordPressPlugin catches (line 1210)
PluginDriver ==
    [present |-> driver /= "None",
     sidebar |-> IF Raises("plugins") THEN "raises" ELSE env.page.sidebar]

\* lines 1769-1770: the schema after plugin enhancement of base
Enhanced(base) ==
    enhance_with_plugins(base, website_type, html_content, PluginDriver, PLUGINS).design_schema

EnhanceWithPlugins ==
    RunStep("plugins", [results EXCEPT !.design_schema = Enhanced(results.design_schema)])

\* ^\d+(\.\d+)?px$
MatchesPx(s) ==
    \E n \in 1..Len(s) :
        /\ \A j \in 1..n : IsDigit(s[j])
        /\ \/ SubSeq(s, n + 1, Len(s)) = T_px
           \/ \E m \in (n + 2)..Len(s) :
                 /\ s[n + 1] = "."
                 /\ \A j \in (n + 2)..m : IsDigit(s[j])
                 /\ SubSeq(s, m + 1, Len(s)) = T_px

\* validate_schema, lines 881-1042: jsonschema.validate against json_schema: the
\* required keys of every section, the colour and spacing patterns, and the string
\* type of the fields that can hold None (a colour role, metadata.cms.theme)
validate_schema(schema) ==
    /\ {"metadata", "colors", "typography", "layout", "components", "images",
        "design_summary"} \subseteq DOMAIN schema
    /\ {"source_url", "extraction_date", "schema_version"} \subseteq DOMAIN schema["metadata"]
    /\ "cms" \in DOMAIN schema["metadata"] =>
           Get(schema["metadata"]["cms"], "theme", <<>>) /= None
    /\ \A k \in {"primary_color", "secondary_color", "accent_color", "background_color",
                 "text_color"} :
           /\ k \in DOMAIN schema["colors"]
           /\ schema["colors"][k] /= None
           /\ MatchesHex6(schema["colors"][k])
    /\ "palette" \in DOMAIN schema["colors"]
    /\ \A i \in 1..Len(schema["colors"]["palette"]) : MatchesHex6(schema["colors"]["palette"][i])
    /\ {"headings", "body", "font_imports", "custom_fonts_detected"}
           \subseteq DOMAIN schema["typography"]
    /\ \A tag \in DOMAIN schema["typography"]["headings"] :
           {"font_family", "font_size", "font_weight"}
               \subseteq DOMAIN schema["typography"]["headings"][tag]
    /\ {"font_family", "font_size", "font_weight", "line_height"}
           \subseteq DOMAIN schema["typography"]["body"]
    /\ {"page_dimensions", "has_grid_system", "common_spacing_units"}
           \subseteq DOMAIN schema["layout"]
    /\ {"width", "height"} \subseteq DOMAIN schema["layout"]["page_dimensions"]
    /\ \A i \in 1..Len(schema["layout"]["common_spacing_units"]) :
           MatchesPx(schema["layout"]["common_spacing_units"][i])
    /\ {"has_svg_icons", "has_icon_font", "icon_classes_found", "image_style",
        "logo_detected"} \subseteq DOMAIN schema["images"]
    /\ "style_keywords" \in DOMAIN schema["design_summary"]

\* line 1775: the value validate_schema returns in this run; an unexpected error
\* inside it is caught at line 1040 and gives False
is_valid == ~Raises("validate") /\ validate_schema(results.design_schema)

\* Mutant of AfterValidation: a schema that fails validation ends the run
AfterValidation_Gate(valid) == IF valid THEN NextStep("validate") ELSE "except"

\* lines 1775-1778: both branches print and go on
AfterValidation(valid) == NextStep("validate")

ValidateSchema ==
    /\ pc = "validate"
    /\ trace' = Append(trace, "validate")
    /\ pc' = AfterValidation(is_valid)
    /\ UNCHANGED <<results, given, env, driver, session, colorVars, schemaVars, call>>

\* lines 1781-1785; json.dumps raising is the failure of this deriver
OptimizeForAi ==
    IF env.optimize_ai
    THEN \E r \in {optimize_for_ai_consumption(results.design_schema, Raises("ai"))} :
             RunDeriver("ai", results.design_schema,
                        [results EXCEPT !.ai_optimized_schema = r.ret,
                                        !.design_schema = r.arg])
    ELSE SkipStep("ai")

\* lines 1788-1792
GenerateCodeSnippets ==
    IF env.generate_code
    THEN RunDeriver("code", results.design_schema,
                    [results EXCEPT !.code_snippets =
                         generate_design_code_snippets(results.design_schema, Raises("code"))])
    ELSE SkipStep("code")

\* Mutant of DocsArgument: the AI view, when there is one
DocsArgument_AiView(res) ==
    IF res.ai_optimized_schema /= NoneObj THEN res.ai_optimized_schema ELSE res.design_schema

\* line 1797: generate_documentation(design_schema)
DocsArgument(res) == res.design_schema

\* lines 1795-1799; generate_documentation returns '' when it raises inside
GenerateDocumentation ==
    IF env.generate_docs
    THEN RunDeriver("docs", DocsArgument(results),
                    [results EXCEPT !.documentation =
                         IF Raises("docs") THEN <<>>
                         ELSE generate_documentation(DocsArgument(results))])
    ELSE SkipStep("docs")

\* lines 1802-1861
SaveFiles == IF env.output_file THEN RunStep("save", results) ELSE SkipStep("save")

\* lines 1863-1864: return results, then the finally block
Return ==
    /\ pc = "return"
    /\ pc' = "finally"
    /\ UNCHANGED <<trace, results, given, env, driver, session, colorVars, schemaVars, call>>

\* Mutant of Except: the exception is raised again instead of results being returned
Except_Reraise ==
    /\ pc = "except"
    /\ pc' = "propagated"
    /\ UNCHANGED <<trace, results, given, env, driver, session, colorVars, schemaVars, call>>

\* lines 1866-1874: return results, then the finally block
Except ==
    /\ pc = "except"
    /\ pc' = "finally"
    /\ UNCHANGED <<trace, results, given, env, driver, session, colorVars, schemaVars, call>>

\* lines 1876-1884
Finally ==
    /\ pc = "finally"
    /\ session' = IF FinallyQuits(driver)
                  THEN [session EXCEPT !.quit_calls = @ + 1] ELSE session
    /\ pc' = "done"
    /\ UNCHANGED <<trace, results, given, env, driver, colorVars, schemaVars, call>>

\* The runs: what the collaborators do and which options the caller passes
PipelinePages ==
    { [html_content |-> H_theme, url |-> U_com, sidebar |-> "visible"],
      [html_content |-> H_wp_no_theme, url |-> U_org, sidebar |-> "none"],
      [html_content |-> W_plain, url |-> U_com, sidebar |-> "none"] }

Environments ==
    [page : PipelinePages,
     selenium : {"no_session", "get_raises", "ok"},
     static_html : BOOLEAN, rendered_html : BOOLEAN,
     raise_at : Range(ProgramOrder) \cup {"none"},
     optimize_ai : BOOLEAN, generate_code : BOOLEAN, generate_docs : BOOLEAN,
     output_file : BOOLEAN]

RunInit ==
    /\ pc = "fetch"
    /\ env \in Environments
    /\ driver = "None"
    /\ session = [created |-> FALSE, quit_calls |-> 0]
    /\ results = NoResults
    /\ trace = <<>>
    /\ given = NoneGiven

RunIdle ==
    /\ pc = "idle"
    /\ env = [page |-> [html_content |-> H_empty, url |-> U_com, sidebar |-> "none"],
              selenium |-> "no_session", static_html |-> FALSE, rendered_html |-> FALSE,
              raise_at |-> "none", optimize_ai |-> FALSE, generate_code |-> FALSE,
              generate_docs |-> FALSE, output_file |-> FALSE]
    /\ driver = "None"
    /\ session = [created |-> FALSE, quit_calls |-> 0]
    /\ results = NoResults
    /\ trace = <<>>
    /\ given = NoneGiven

SchemaIdle ==
    /\ descriptors = EmptyDict
    /\ design_schema = EmptyDict
    /\ schema_pc = "idle"

----------------------------------------------------------------------------
(* Specifications *)

Init == ColorIdle /\ SchemaIdle /\ RunInit /\ CallIdle

Next ==
    \/ FetchWebpage
    \/ DetermineWebsiteType
    \/ \E r \in Range(Resolvers) : Resolve(r)
    \/ GenerateSchema
    \/ EnhanceWithPlugins
    \/ ValidateSchema
    \/ OptimizeForAi
    \/ GenerateCodeSnippets
    \/ GenerateDocumentation
    \/ SaveFiles
    \/ Return
    \/ Except
    \/ Finally

\* One run of extract_design_scheme_extended in every environment
Spec == Init /\ [][Next]_vars

\* extract_color_palette applied to every page of ColorPages
InitColors == ColorInit /\ SchemaIdle /\ RunIdle /\ CallIdle

SpecColors == InitColors /\ [][ExtractColorPalette]_vars

\* generate_design_schema applied to every combination of resolver outputs
InitSchema == ColorIdle /\ SchemaInit /\ RunIdle /\ CallIdle

SpecSchema == InitSchema /\ [][GenerateDesignSchema]_vars

\* enhance_with_plugins applied to every registry of PluginPool
InitPlugins == ColorIdle /\ SchemaIdle /\ RunIdle /\ call \in PluginCalls

SpecPlugins == InitPlugins /\ [][EnhanceWithPluginsCall]_vars

\* determine_website_type applied to every page of SitePages and URL of UrlPool
InitSite == ColorIdle /\ SchemaIdle /\ RunIdle /\ call \in SiteCalls

SpecSite == InitSite /\ [][DetermineWebsiteTypeCall]_vars

\* generate_design_code_snippets applied to every schema of SnippetSchemas
InitSnippets == ColorIdle /\ SchemaIdle /\ RunIdle /\ call \in SnippetCalls

SpecSnippets == InitSnippets /\ [][GenerateCodeSnippetsCall]_vars

\* optimize_for_ai_consumption applied to every schema of AiSchemas, with the JSON
\* copy succeeding and failing
InitAi == ColorIdle /\ SchemaIdle /\ RunIdle /\ call \in AiCalls

SpecAi == InitAi /\ [][OptimizeForAiCall]_vars

\* The CSS class pattern detection of detect_component_patterns applied to every
\* page of CssPages
InitCss == ColorIdle /\ SchemaIdle /\ RunIdle /\ call \in CssCalls

SpecCss == InitCss /\ [][DetectCssPatternsCall]_vars

(* The strings rgb_to_hex is called with *)

\* One call of rgb_to_hex
RgbToHexCall ==
    /\ call.fn = "rgb_to_hex"
    /\ call.pc = "input"
    /\ call' = [call EXCEPT !.pc = "done", !.ret = rgb_to_hex(call.rgb_str)]
    /\ UNCHANGED <<colorVars, schemaVars, runVars>>

\* str(n) of an integer
SignedStr(n) == IF n < 0 THEN << "-" >> \o DecStr(0 - n) ELSE DecStr(n)

\* The components written into the strings: below, inside and above [0,255]
ComponentPool == {0 - 5, 0, 10, 255, 300}

\* The notations of one colour: rgb(r, g, b), rgba(r,g,b,0.5) and RGB( r , g , b )
Notation(kind, r, g, b) ==
    IF kind = "rgb"
    THEN <<"r","g","b","(">> \o SignedStr(r) \o <<","," ">> \o SignedStr(g) \o <<","," ">> \o SignedStr(b) \o <<")">>
    ELSE IF kind = "rgba"
    THEN <<"r","g","b","a","(">> \o SignedStr(r) \o <<",">> \o SignedStr(g) \o <<",">> \o SignedStr(b) \o <<",","0",".","5",")">>
    ELSE <<"R","G","B","("," ">> \o SignedStr(r) \o <<" ",","," ">> \o SignedStr(g) \o <<" ",","," ">> \o SignedStr(b) \o <<" ",")">>

\* Each string with the numeric components it is written with
RgbStrings ==
    { [rgb_str |-> Notation(kind, r, g, b), components |-> << r, g, b >>] :
          kind \in {"rgb", "rgba", "spaced"}, r \in ComponentPool,
          g \in ComponentPool, b \in ComponentPool }

OtherStrings ==
    { [rgb_str |-> None, components |-> <<>>],
      [rgb_str |-> <<>>, components |-> <<>>],
      [rgb_str |-> <<"r","e","d">>, components |-> <<>>],
      [rgb_str |-> <<"#","f","f","0","0","0","0">>, components |-> <<>>],
      [rgb_str |-> <<"h","s","l","(","1","2","0",","," ","5","0","%",","," ","4","0","%",")">>, components |-> << 120, 50, 40 >>],
      [rgb_str |-> <<"r","g","b","(","1",","," ","2",")">>, components |-> << 1, 2 >>],
      [rgb_str |-> <<"r","g","b","(",")">>, components |-> <<>>] }

RgbCalls ==
    { [fn |-> "rgb_to_hex", pc |-> "input", rgb_str |-> s.rgb_str,
       components |-> s.components, ret |-> None] : s \in RgbStrings \cup OtherStrings }

\* rgb_to_hex applied to every string of RgbCalls
InitRgb == ColorIdle /\ SchemaIdle /\ RunIdle /\ call \in RgbCalls

SpecRgb == InitRgb /\ [][RgbToHexCall]_vars

\* generate_design_schema run twice on the descriptors of RepeatCalls
InitRepeat == ColorIdle /\ SchemaIdle /\ RunIdle /\ call \in RepeatCalls

SpecRepeat == InitRepeat /\ [][GenerateDesignSchemaAgain]_vars

\* The spacing analysis of analyze_layout applied to every page of SpacingPages
InitSpacing == ColorIdle /\ SchemaIdle /\ RunIdle /\ call \in SpacingCalls

SpecSpacing == InitSpacing /\ [][AnalyzeSpacingCall]_vars

----------------------------------------------------------------------------
(* Properties of extract_color_palette *)

\* c matches ^#[0-9a-f]{6}$
IsLowerHex6(c) ==
    /\ c /= None
    /\ Len(c) = 7
    /\ c[1] = "#"
    /\ \A i \in 2..7 : c[i] \in HexSet

RoleFields == {"primary_color", "secondary_color", "accent_color", "background_color", "text_color"}

\* C1: every colour field extract_color_palette returns is populated and matches
\* ^#[0-9a-f]{6}$, and so does every entry of the palette.
C1_ColorFieldsWellFormed ==
    color_pc = "done" =>
        /\ \A f \in RoleFields : IsLowerHex6(colors[f])
        /\ \A i \in 1..Len(colors.palette) : IsLowerHex6(colors.palette[i])

\* A run on a page with an out-of-range CSS colour, a transparent body background
\* and a non-empty palette.
C1_Witness ==
    /\ color_pc = "done"
    /\ colors.palette /= <<>>
    /\ signals.body_bg = S_rgba_clear
    /\ \E d \in signals.css_declarations : d.value = S_rgb_over

\* C2: two runs on identical raw signals yield identical roles and an identical
\* palette: every result the call can produce on the signals of this run equals
\* the result of this run, whatever order the set of valid colours is iterated in.
C2_RolesDeterministic ==
    color_pc = "done" =>
        \A lst \in ListOrders(ValidHexColors(signals)) :
            ColorResult(lst, colors.background_color, colors.text_color, colors.palette) = colors

\* C3: with three or more colours that are non-grayscale and differ from the
\* background and text colours, primary, secondary and accent are the first three
\* such entries of the emitted palette, in the palette's order.
C3_RolesFollowPaletteOrder ==
    (color_pc = "done"
     /\ Len(NonGrayColors(sorted_colors, colors.background_color, colors.text_color)) >= 3) =>
        LET q == NonGrayColors(colors.palette, colors.background_color, colors.text_color)
        IN /\ Len(q) >= 3
           /\ <<colors.primary_color, colors.secondary_color, colors.accent_color>>
                  = <<q[1], q[2], q[3]>>

\* C4: with fewer than three preferred colours but at least three colours
\* available, the roles are filled by progressive relaxation: the preferred
\* colours, then grayscale colours that are not background/text, then the
\* background/text colours; no role repeats another while a colour is left unchosen
\* (with three or more colours available one always is).
C4_ProgressiveRelaxation ==
    (color_pc = "done"
     /\ Len(sorted_colors) >= 3
     /\ Len(NonGrayColors(sorted_colors, colors.background_color, colors.text_color)) < 3) =>
        LET bg == colors.background_color
            text == colors.text_color
            valid == Range(sorted_colors)
            roles == {colors.primary_color, colors.secondary_color, colors.accent_color}
            preferred == Range(NonGrayColors(sorted_colors, bg, text))
            others == { c \in valid : NotIn(c, {bg, text}) }
        IN /\ roles \subseteq valid
           /\ Cardinality(roles) = 3
           /\ preferred \subseteq roles
           /\ (roles \ others /= {}) => others \subseteq roles

\* C5: when no source yields a colour, the roles are the fixed defaults and the
\* palette is empty.
C5_DefaultsWhenNoColor ==
    (color_pc = "done" /\ AllHexColors(signals) \subseteq {None}) =>
        /\ colors.primary_color = S_default_primary
        /\ colors.secondary_color = S_default_secondary
        /\ colors.accent_color = S_default_accent
        /\ colors.palette = <<>>

\* A run on a page whose only colour values are unparseable CSS declarations.
C5_Witness ==
    /\ color_pc = "done"
    /\ AllHexColors(signals) = {None}
    /\ signals.dominant_colors_rgb = <<>>
    /\ colors.primary_color = S_default_primary

\* C8: the palette has at most 15 entries and no two of them are equal when
\* compared case-insensitively.
C8_PaletteBounded ==
    color_pc = "done" =>
        /\ Len(colors.palette) <= 15
        /\ \A i, j \in 1..Len(colors.palette) :
               i /= j => Lower(colors.palette[i]) /= Lower(colors.palette[j])

\* A run on a page with more than 15 distinct valid colours, some of them
\* reported by two sources.
C8_Witness ==
    /\ color_pc = "done"
    /\ Cardinality(ValidHexColors(signals)) > 15
    /\ Len(colors.palette) = 15

----------------------------------------------------------------------------
(* Properties of generate_design_schema *)

Keywords == Range(design_schema.design_summary.style_keywords)

\* C6: the keywords contain "limited-palette" exactly when the palette has 4 or
\* fewer entries (the empty palette included), "high-contrast" exactly when it has
\* more than 6, and neither for 5 and 6 entries.
C6_PaletteSizeKeywords ==
    schema_pc = "done" =>
        /\ K_limited_palette \in Keywords <=> Len(descriptors.colors.palette) <= 4
        /\ K_high_contrast \in Keywords <=> Len(descriptors.colors.palette) > 6

KeywordPairs ==
    { {K_rounded_corners, K_sharp_corners}, {K_uses_shadows, K_flat_design},
      {K_serif_typography, K_sans_serif_typography},
      {K_contained_width, K_full_width_layout} }

\* C7: the keywords contain exactly one keyword of each of the four pairs.
C7_ExactlyOnePerPair ==
    schema_pc = "done" => \A pair \in KeywordPairs : Cardinality(pair \cap Keywords) = 1

\* A schema assembled from a card with a shadow, rounded buttons, a sampled h1 and a
\* container width.
C7_Witness ==
    /\ schema_pc = "done"
    /\ descriptors.components.cards /= EmptyDict
    /\ descriptors.components.buttons = [border_radius |-> S_4px]
    /\ "h1" \in DOMAIN descriptors.typography.headings
    /\ descriptors.layout.container_width = 1200
    /\ {K_uses_shadows, K_rounded_corners, K_serif_typography, K_contained_width}
           \subseteq Keywords

----------------------------------------------------------------------------
(* Properties of extract_design_scheme_extended *)

\* the positions at which stage st occurs in the trace
Positions(st) == { i \in 1..Len(trace) : trace[i] \in st }

Before(first, second) == \A i \in Positions(first), j \in Positions(second) : i < j

ResolverStages == Range(Resolvers)
DeriverStages == {"ai", "code", "docs"}

\* C9 as stated: resolvers, assembly, validation, classification, plugin
\* enhancement, derivation, in this order; validation precedes classification and
\* plugin enhancement.
C9_ValidationBeforeClassification ==
    /\ Before(ResolverStages, {"assemble"})
    /\ Before({"assemble"}, {"validate"})
    /\ Before({"validate"}, {"classify"})
    /\ Before({"classify"}, {"plugins"})
    /\ Before({"plugins"}, DeriverStages)
    /\ (Positions({"classify"}) \cup Positions({"plugins"})) /= {}
           => Positions({"validate"}) /= {}

\* C9 amended: classification, the five resolvers, assembly, plugin enhancement,
\* validation, derivation, in this order; no plugin and no deriver runs before the
\* schema is assembled, and no deriver runs before the enhanced schema is validated.
C9_StageOrder ==
    /\ Before({"classify"}, ResolverStages)
    /\ Before(ResolverStages, {"assemble"})
    /\ Before({"assemble"}, {"plugins"})
    /\ Before({"plugins"}, {"validate"})
    /\ Before({"validate"}, DeriverStages)
    /\ Positions({"plugins"}) /= {} => Positions({"assemble"}) /= {}
    /\ Positions({"validate"}) /= {} => Positions({"plugins"}) /= {}
    /\ Positions(DeriverStages) /= {} => Positions({"validate"}) /= {}

\* A complete run with every deriver enabled.
C9_Witness ==
    /\ pc = "done"
    /\ Positions({"classify"}) /= {}
    /\ Positions({"validate"}) /= {}
    /\ \A d \in DeriverStages : Positions({d}) /= {}
    /\ results.documentation /= NoneDoc
    /\ results.documentation /= <<>>

\* C10: a run in which a driver session was created ends with driver.quit called.
C10_SessionReleased ==
    (pc = "done" /\ session.created) => session.quit_calls >= 1

\* A run that ended after a resolver raised with the session open.
C10_Witness ==
    /\ pc = "done"
    /\ session.created
    /\ driver = "session"
    /\ env.raise_at = "layout"
    /\ trace[Len(trace)] = "layout"
    /\ session.quit_calls = 1

----------------------------------------------------------------------------
(* Properties of enhance_with_plugins *)

PluginsDone == call.fn = "enhance_with_plugins" /\ call.pc = "done"

\* The names of the registered plugins whose applicable types contain t, in registry order
ApplicableNames(plugins, t) ==
    LET applicable(p) == p.applicable_types /= None /\ t \in Range(p.applicable_types)
        sel == SelectSeq(plugins, applicable)
    IN [i \in 1..Len(sel) |-> sel[i].plugin_name]

\* C11: enhance_with_plugins calls enhance_schema of exactly the registered plugins
\* whose applicable types contain the detected type, in registry order, also after a
\* plugin raised; the first receives the schema passed in, each later one the schema
\* the previous one left, and the result is what the last one left.
C11_PluginsAppliedInOrder ==
    PluginsDone =>
        LET calls == call.ret.calls
        IN /\ [i \in 1..Len(calls) |-> calls[i].plugin]
                  = ApplicableNames(call.plugins, call.website_type)
           /\ calls /= <<>> => calls[1].received = call.design_schema
           /\ \A k \in 2..Len(calls) : calls[k].received = calls[k - 1].left
           /\ call.ret.design_schema
                  = IF calls = <<>> THEN call.design_schema ELSE calls[Len(calls)].left

\* A registry whose first plugin raises and whose second, a tagging plugin, is still
\* applied and receives what the first left.
C11_Witness ==
    /\ PluginsDone
    /\ Len(call.ret.calls) = 2
    /\ call.ret.calls[1].raised
    /\ ~call.ret.calls[2].raised
    /\ call.ret.applied_plugins = <<"tagger">>
    /\ "tags" \in DOMAIN call.ret.design_schema

\* C12: for the type "general", no plugin registered only for "wordpress" is invoked,
\* and with a registry of such plugins only (as _PLUGINS is) the schema returned and
\* the mapping the caller passed both equal the schema passed in.
C12_WordPressOnlySkipped ==
    (PluginsDone /\ call.website_type = "general") =>
        /\ \A k \in 1..Len(call.ret.calls) : call.ret.calls[k].plugin /= "wordpress_enhancer"
        /\ (\A i \in 1..Len(call.plugins) : call.plugins[i].applicable_types = <<"wordpress">>)
               => /\ call.ret.calls = <<>>
                  /\ call.ret.design_schema = call.design_schema
                  /\ call.ret.caller_schema = call.design_schema

\* The registry of the program run on a generated schema of a page that carries a
\* WordPress theme path but is classified "general".
C12_Witness ==
    /\ PluginsDone
    /\ call.website_type = "general"
    /\ call.plugins = PLUGINS
    /\ call.html_content = H_theme
    /\ call.driver.sidebar = "visible"
    /\ call.design_schema /= EmptyDict
    /\ call.ret.design_schema = call.design_schema

----------------------------------------------------------------------------
(* Properties of determine_website_type *)

CategoryOrder ==
    <<"wordpress", "shopify", "wix", "squarespace", "webflow", "joomla", "drupal",
      "tailwind", "bootstrap", "react", "vue", "angular", "material",
      "ecommerce", "blog", "government", "education", "organization">>

\* The page or the URL carries the signature of category c
CategoryMatches(c, low, url) ==
    IF c = "ecommerce" THEN SearchAny(ecommerce_patterns, low)
    ELSE IF c = "blog" THEN SearchAny(blog_patterns, low)
    ELSE IF c = "government" THEN ~UrlparseRaises(url) /\ Contains(Netloc(url), S_dot_gov)
    ELSE IF c = "education" THEN ~UrlparseRaises(url) /\ Contains(Netloc(url), S_dot_edu)
    ELSE IF c = "organization" THEN ~UrlparseRaises(url) /\ Contains(Netloc(url), S_dot_org)
    ELSE \E i \in 1..Len(cms_patterns) :
            cms_patterns[i].type_key = c /\ SearchPattern(cms_patterns[i], low)

SiteDone == call.fn = "determine_website_type" /\ call.pc = "done"

\* C19: determine_website_type returns the first category of the order CMS,
\* framework, ecommerce, blog, government, education, organization whose signature
\* the page or URL carries, and "general" exactly when no category matches.
C19_FirstMatchingCategory ==
    SiteDone =>
        \E low \in {Lower(call.html_content)} :
            LET hits == { i \in 1..Len(CategoryOrder) :
                             CategoryMatches(CategoryOrder[i], low, call.url) }
            IN /\ hits /= {} => call.ret = CategoryOrder[Min(hits)]
               /\ hits = {} <=> call.ret = "general"

\* A blog page that also carries a framework signature and a .org.gov address: the
\* framework wins.
C19_Witness ==
    /\ SiteDone
    /\ call.html_content = W_blog \o <<" ">> \o W_bootstrap
    /\ call.url = U_org_gov
    /\ call.ret = "bootstrap"

----------------------------------------------------------------------------
(* Properties of generate_design_code_snippets *)

SnippetsDone == call.fn = "generate_design_code_snippets" /\ call.pc = "done"

\* The spacing base the claim describes: the leading integer of the first common
\* spacing unit, 8 without one
ExpectedSpacingBase(schema) ==
    LET units == schema.layout.common_spacing_units
    IN IF units = <<>> \/ ~IsDigit(Head(units[1] \o <<"x">>)) THEN S_8
       ELSE LeadingDigits(units[1])

\* The radius base the claim describes: from the button border radius if there is
\* one, otherwise from the card border radius; its leading integer, 4 without one
ExpectedRadiusBase(schema) ==
    LET b == Get(schema.components.buttons, "border_radius", None)
        cd == Get(schema.components.cards, "border_radius", None)
        src == IF b /= None /\ b /= <<>> THEN b ELSE cd
    IN IF src = None \/ src = <<>> \/ ~IsDigit(Head(src \o <<"x">>)) THEN S_4
       ELSE LeadingDigits(src)

\* C18: the three snippets interpolate the same spacing base (leading integer of the
\* first common spacing unit, default 8) and the same radius base (leading integer of
\* the button radius, else of the card radius, default 4).
C18_SnippetBases ==
    SnippetsDone =>
        LET sp == ExpectedSpacingBase(call.design_schema)
            rad == ExpectedRadiusBase(call.design_schema)
            r == call.ret
        IN /\ r /= NoneObj
           /\ r.css_variables[2] = <<" "," ","-","-","s","p","a","c","i","n","g","-","u","n","i","t",":"," ">> \o sp \o <<"p","x",";">>
           /\ r.css_variables[3] = <<" "," ","-","-","b","o","r","d","e","r","-","r","a","d","i","u","s",":"," ">> \o rad \o <<"p","x",";">>
           /\ r.tailwind_config[2] = <<" "," "," "," "," "," "," "," ","'","u","n","i","t","'",":"," ","'">> \o sp \o <<"p","x","'",",">>
           /\ r.tailwind_config[3] = <<" "," "," "," "," "," "," "," ","'","x","s","'",":"," ",Backtick,"c","a","l","c","(","$","{">> \o sp \o <<"}","p","x"," ","*"," ","0",".","2","5",")",Backtick,",">>
           /\ r.tailwind_config[5] = <<" "," "," "," "," "," "," "," ","D","E","F","A","U","L","T",":"," ","'">> \o rad \o <<"p","x","'",",">>
           /\ r.styled_components_theme[2] = <<" "," "," "," ","u","n","i","t",":"," ","'">> \o sp \o <<"p","x","'",",">>
           /\ r.styled_components_theme[4] = <<" "," ","b","o","r","d","e","r","R","a","d","i","u","s",":"," ","'">> \o rad \o <<"p","x","'",",">>

\* A schema whose first spacing unit has no leading integer and whose button radius
\* is empty while the card radius is 8px: bases 8 and 8.
C18_Witness ==
    /\ SnippetsDone
    /\ call.design_schema.layout.common_spacing_units = << S_dot5px, S_16px >>
    /\ call.design_schema.components.buttons = [border_radius |-> <<>>]
    /\ call.design_schema.components.cards = [border_radius |-> S_8px, box_shadow |-> None]
    /\ call.ret.css_variables[2] = <<" "," ","-","-","s","p","a","c","i","n","g","-","u","n","i","t",":"," ","8","p","x",";">>
    /\ call.ret.styled_components_theme[4] = <<" "," ","b","o","r","d","e","r","R","a","d","i","u","s",":"," ","'","8","p","x","'",",">>

----------------------------------------------------------------------------
(* Properties of the validation and deriver steps of extract_design_scheme_extended *)

\* The schema of the run after plugin enhancement (lines 1763-1770)
EnhancedSchema == Enhanced(DesignSchema(PageDescriptor))

\* validate_schema was called in this run and returned False
ValidationFailed ==
    /\ "validate" \in Range(trace)
    /\ Raises("validate") \/ ~validate_schema(EnhancedSchema)

\* The derivers the caller enabled
EnabledDerivers ==
    (IF env.optimize_ai THEN {"ai"} ELSE {})
    \cup (IF env.generate_code THEN {"code"} ELSE {})
    \cup (IF env.generate_docs THEN {"docs"} ELSE {})

\* C13: validation is advisory. When validate_schema returned False, the schema in
\* results["design_schema"] is still the schema that was validated, the run goes on to
\* the derivers instead of the except clause, and at the end every enabled deriver
\* has run on that schema.
C13_ValidationAdvisory ==
    ValidationFailed =>
        /\ results.design_schema = EnhancedSchema
        /\ pc = "except" => (Raises("save") /\ "save" \in Range(trace))
        /\ pc = "done" /\ ~(Raises("save") /\ "save" \in Range(trace)) =>
               \A d \in EnabledDerivers :
                   /\ d \in Range(trace)
                   /\ given[d] = EnhancedSchema

\* A finished run whose WordPress page has no theme path: validation fails on the
\* None theme, and all three derivers ran and produced their outputs
C13_Witness ==
    /\ pc = "done"
    /\ ValidationFailed
    /\ ~Raises("validate")
    /\ EnabledDerivers = {"ai", "code", "docs"}
    /\ EnabledDerivers \subseteq Range(trace)
    /\ results.design_schema = EnhancedSchema
    /\ results.ai_optimized_schema /= NoneObj
    /\ results.code_snippets /= NoneObj
    /\ results.documentation /= NoneDoc
    /\ results.documentation /= <<>>

\* The entry of a deriver in the results, and Python's None for that entry
Entry(d) ==
    IF d = "docs" THEN results.documentation
    ELSE IF d = "ai" THEN results.ai_optimized_schema ELSE results.code_snippets

NullEntry(d) == IF d = "docs" THEN NoneDoc ELSE NoneObj

\* The deriver d was called in this run and failed
DeriverFailed(d) == d \in Range(trace) /\ Raises(d)

\* The run ended without the saving step raising
RanToReturn == pc = "done" /\ "validate" \in Range(trace) /\ ~DeriverFailed("save")

\* C14: when one deriver fails, its entry in the results is null, and the other
\* enabled derivers have run and their entries are populated.
C14_FailedDeriverNull ==
    RanToReturn =>
        \A d \in EnabledDerivers :
            DeriverFailed(d) =>
                /\ Entry(d) = NullEntry(d)
                /\ \A e \in EnabledDerivers \ {d} :
                       e \in Range(trace) /\ Entry(e) /= NullEntry(e)

\* What the code does instead: the other derivers do run, the failed code snippets
\* entry is None, the failed documentation entry is the empty string and the failed
\* AI view entry is the schema it was given, without an ai_consumption section
C14_FailedDeriverEntries ==
    RanToReturn =>
        \A d \in EnabledDerivers :
            DeriverFailed(d) =>
                /\ d = "code" => results.code_snippets = NoneObj
                /\ d = "docs" => results.documentation = <<>>
                /\ d = "ai" => results.ai_optimized_schema = EnhancedSchema
                /\ \A e \in EnabledDerivers \ {d} :
                       e \in Range(trace) /\ Entry(e) /= NullEntry(e)

\* What deriver d returns for the enhanced schema of the run, whatever the other
\* derivers did
ExpectedEntry(d) ==
    IF d = "ai" THEN optimize_for_ai_consumption(EnhancedSchema, Raises("ai")).ret
    ELSE IF d = "code" THEN generate_design_code_snippets(EnhancedSchema, Raises("code"))
    ELSE IF Raises("docs") THEN <<>> ELSE generate_documentation(EnhancedSchema)

\* C15: every deriver that ran was called with the schema as it stands after plugin
\* enhancement, and its entry in the results is what it returns for that schema alone:
\* it depends neither on which other derivers are enabled nor on what they did before.
C15_DeriversIndependent ==
    \A d \in {"ai", "code", "docs"} :
        d \in Range(trace) =>
            /\ given[d] = EnhancedSchema
            /\ Entry(d) = ExpectedEntry(d)
            /\ results.design_schema = EnhancedSchema

\* A finished run in which all three derivers ran after the WordPress plugin changed
\* the schema: each was given the enhanced schema, and the AI view, which ran first,
\* holds a section the other two never saw
C15_Witness ==
    /\ pc = "done"
    /\ {"ai", "code", "docs"} \subseteq Range(trace)
    /\ env.raise_at = "none"
    /\ EnhancedSchema /= DesignSchema(PageDescriptor)
    /\ given.ai = EnhancedSchema /\ given.code = EnhancedSchema /\ given.docs = EnhancedSchema
    /\ "ai_consumption" \in DOMAIN results.ai_optimized_schema
    /\ "ai_consumption" \notin DOMAIN given.docs
    /\ results.documentation = generate_documentation(EnhancedSchema)

\* The sections the AI view describes in a sentence (lines 1267-1273)
DescribedSections ==
    {"overall_style", "color_scheme", "typography", "layout_spacing", "component_styles"}

\* C17: in a run where both the AI view and the documentation were produced, every
\* sentence the AI view holds for a section is a line of the documentation.
C17_DocsReuseAiSentences ==
    (/\ pc = "done"
     /\ {"ai", "docs"} \subseteq Range(trace)
     /\ ~Raises("ai") /\ ~Raises("docs")) =>
        \A k \in DescribedSections :
            LET sentence ==
                    results.ai_optimized_schema.ai_consumption.natural_language_descriptions[k]
            IN sentence /= <<>> => sentence \in Range(results.documentation)

----------------------------------------------------------------------------
(* Properties of optimize_for_ai_consumption *)

AiDone == call.fn = "optimize_for_ai_consumption" /\ call.pc = "done"

----------------------------------------------------------------------------
(* Properties of the CSS class patterns of detect_component_patterns *)

CssDone == call.fn = "detect_component_patterns" /\ call.pc = "done"

\* The class tokens of the page of the call, with their counts, in first-seen order
PageCounter == Counter(AllClasses(findall(call.html_content, 1)))

\* Entry j of the counter is more frequent than entry k, or as frequent and seen earlier
Ahead(cc, j, k) ==
    \/ cc[j].count > cc[k].count
    \/ cc[j].count = cc[k].count /\ j < k

\* The entries that occur more than 5 times, contain a utility indicator and are
\* longer than 2 characters
QualifyingEntries(cc) ==
    { k \in 1..Len(cc) :
        /\ cc[k].count > 5
        /\ \E n \in 1..Len(utility_indicators) : Contains(cc[k].cls, utility_indicators[n])
        /\ Len(cc[k].cls) > 2 }

\* The entries with fewer than 50 entries ahead of them
Top50Entries(cc) ==
    { k \in 1..Len(cc) : Cardinality({ j \in 1..Len(cc) : Ahead(cc, j, k) }) < 50 }

\* out lists the classes of the entries of eligible, most frequent first, and stops
\* after 15: an entry of eligible is left out only when 15 of them are ahead of it
ListsMostFrequent(out, cc, eligible) ==
    /\ Len(out) = IF Cardinality(eligible) < 15 THEN Cardinality(eligible) ELSE 15
    /\ \A r \in 1..Len(out) :
           \E k \in eligible :
               /\ out[r] = cc[k].cls
               /\ Cardinality({ j \in eligible : Ahead(cc, j, k) }) = r - 1

\* C20 as stated: detected_css_patterns lists the qualifying class tokens of the
\* page by descending frequency, truncated to the 15 most frequent of them.
C20_AllQualifyingTokens ==
    CssDone =>
        \A cc \in { PageCounter } : ListsMostFrequent(call.ret, cc, QualifyingEntries(cc))

\* C20 as the code has it: detected_css_patterns lists the qualifying class tokens
\* among the 50 most frequent class tokens of the page, by descending frequency,
\* truncated to the first 15 of them.
C20_QualifyingAmongTop50 ==
    CssDone =>
        \A cc \in { PageCounter } :
            ListsMostFrequent(call.ret, cc, QualifyingEntries(cc) \cap Top50Entries(cc))

\* The page with 17 qualifying tokens: the list holds the first 15 of them
C20_Witness ==
    /\ CssDone
    /\ call.html_content = ManyPatternsPage
    /\ Len(call.ret) = 15
    /\ call.ret[1] = <<"b","t","n","-","a">>
    /\ call.ret[15] = <<"b","t","n","-","o">>
    /\ Cardinality(QualifyingEntries(PageCounter)) = 17

----------------------------------------------------------------------------
(* Properties of the spacing units of analyze_layout *)

SpacingDone == call.fn = "analyze_layout" /\ call.pc = "done"

\* The values analyze_layout appended to spacing_samples for the page of the call
Observations ==
    IF call.page.find_raises THEN <<>>
    ELSE spacing_samples(Take(call.page.elements, SpacingSampleLimit))

Occurrences(v) == Cardinality({ i \in 1..Len(Observations) : Observations[i] = v })

FirstObservation(v) == Min({ i \in 1..Len(Observations) : Observations[i] = v })

\* v is listed before w: observed more often, or as often and first observed earlier
ListedBefore(v, w) ==
    \/ Occurrences(v) > Occurrences(w)
    \/ Occurrences(v) = Occurrences(w) /\ FirstObservation(v) < FirstObservation(w)

\* C21: common_spacing_units holds at most 5 values, each of them a pixel value
\* greater than zero that was sampled, without repetition, ordered by descending
\* number of observations with ties in the order of their first observation; no
\* observed value left out precedes a listed one, and the list is [] when no sample
\* was collected.
C21_CommonSpacingUnits ==
    SpacingDone =>
        /\ Len(call.ret) <= SpacingCap
        /\ \A i \in 1..Len(call.ret) :
              /\ call.ret[i] \in Range(Observations)
              /\ EndsWithPx(call.ret[i])
              /\ FloatSign(RemovePx(call.ret[i])) = "positive"
              /\ call.ret[i] /= S_0px
        /\ \A i, j \in 1..Len(call.ret) : i < j => ListedBefore(call.ret[i], call.ret[j])
        /\ \A v \in Range(Observations) :
              v \notin Range(call.ret) =>
                  /\ Len(call.ret) = SpacingCap
                  /\ \A i \in 1..Len(call.ret) : ListedBefore(call.ret[i], v)
        /\ (Observations = <<>> => call.ret = <<>>)

\* A page with more than five sampled values, two of them observed equally often,
\* zero and negative values among the computed styles, and five units listed
C21_Witness ==
    /\ SpacingDone
    /\ Len(call.ret) = SpacingCap
    /\ Cardinality(Range(Observations)) > SpacingCap
    /\ \E i \in 1..(SpacingCap - 1) :
          Occurrences(call.ret[i]) = Occurrences(call.ret[i + 1])
    /\ \E e \in Range(call.page.elements) :
          e.displayed = "yes" /\ S_0px \in Range(e.styles)

----------------------------------------------------------------------------
(* Properties of rgb_to_hex *)

RgbDone == call.fn = "rgb_to_hex" /\ call.pc = "done"

\* The string names the rgb notation, in either case
NamesRgb == call.rgb_str /= None /\ Contains(Lower(call.rgb_str), <<"r","g","b">>)

\* '#' and the two-digit lowercase hex of the first three components, each clamped
ClampedHex ==
    HexOfRgb(Clamp255(call.components[1]), Clamp255(call.components[2]),
             Clamp255(call.components[3]))

\* C22: for an rgb()/rgba() string with any whitespace whose first three numeric
\* components are r, g, b, rgb_to_hex returns '#' followed by the two-digit lowercase
\* hex of each component clamped to [0,255], the alpha being ignored; it returns no
\* value for a string that does not contain 'rgb' or has fewer than three numeric
\* components.
C22_RgbToHexClamps ==
    RgbDone =>
        /\ (NamesRgb /\ Len(call.components) >= 3 => call.ret = ClampedHex)
        /\ (~NamesRgb \/ Len(call.components) < 3 => call.ret = None)

\* The part of C22 the code satisfies: the same statement for components that are
\* not negative
C22_NonNegativeComponents ==
    RgbDone =>
        /\ (/\ NamesRgb /\ Len(call.components) >= 3
            /\ \A i \in 1..3 : call.components[i] >= 0
            => call.ret = ClampedHex)
        /\ (~NamesRgb \/ Len(call.components) < 3 => call.ret = None)

\* A component above 255 is clamped and the alpha of an rgba() string is ignored
C22_Witness ==
    /\ RgbDone
    /\ call.components = << 300, 10, 0 >>
    /\ Contains(call.rgb_str, <<"r","g","b","a">>)
    /\ call.ret = <<"#","f","f","0","a","0","0">>

----------------------------------------------------------------------------
(* Properties of repeated runs of generate_design_schema *)

RanTwice == call.fn = "generate_design_schema" /\ Len(call.schemas) = 2

\* The schema without metadata.extraction_date
Undated(schema) ==
    [schema EXCEPT !.metadata = [k \in DOMAIN schema.metadata \ {"extraction_date"} |->
                                     schema.metadata[k]]]

\* lst is in ascending alphabetical order without a repeated entry
StrictlySorted(lst) == \A i \in 1..(Len(lst) - 1) : StrLess(lst[i], lst[i + 1])

----------------------------------------------------------------------------
(* Properties of the failure paths of extract_design_scheme_extended *)

\* The positions of a call that is running or has returned results
InsideOrReturned == Range(ProgramOrder) \cup {"fetch", "return", "except", "finally", "done"}

\* fetch_webpage raised: no session, a failed page load, or no html at all
RetrievalFailed ==
    env.selenium /= "ok" \/ (~env.rendered_html /\ ~env.static_html)

\* generate_design_schema returned and line 1765 stored its schema
Assembled == "assemble" \in Range(trace) /\ ~Raises("assemble")

\* C24: extract_design_scheme_extended never propagates an exception: whatever step
\* raises, the call ends by returning the results mapping with its four keys. All
\* four entries are null when the retrieval fails, and a schema that was assembled
\* stays in results["design_schema"] (as enhanced by the plugins, once they ran) when
\* a later step fails.
C24_NeverPropagates ==
    /\ pc \in InsideOrReturned
    /\ pc = "done" =>
          /\ DOMAIN results = {"design_schema", "ai_optimized_schema", "documentation",
                               "code_snippets"}
          /\ (RetrievalFailed => results = NoResults)
          /\ (Assembled =>
                 /\ results.design_schema /= NoneObj
                 /\ results.design_schema =
                        IF "plugins" \in Range(trace)
                        THEN Enhanced(DesignSchema(PageDescriptor))
                        ELSE DesignSchema(PageDescriptor))

\* A run whose file writing raises after every deriver ran: the schema is returned
C24_Witness ==
    /\ pc = "done"
    /\ Raises("save") /\ "save" \in Range(trace)
    /\ results.design_schema /= NoneObj
    /\ results.ai_optimized_schema /= NoneObj

----------------------------------------------------------------------------
(* Properties of the driver session: number of quit calls *)

\* C25: within one run driver.quit is invoked at most once on the driver session, on
\* every path through fetch_webpage and extract_design_scheme_extended, the path
\* where both the rendered and the static html are empty included.
C25_QuitAtMostOnce == session.quit_calls <= 1

\* The part of C25 the code satisfies: a session is quit twice only on the path where
\* the page was loaded and both the rendered and the static html are empty
C25_QuitTwiceOnlyWithoutHtml ==
    /\ session.quit_calls <= 2
    /\ session.quit_calls = 2 <=>
           /\ "fetch" \in Range(trace)
           /\ env.selenium = "ok" /\ ~env.rendered_html /\ ~env.static_html

----------------------------------------------------------------------------
(* Properties of the primary colour of extract_color_palette *)

\* Some available colour is neither the resolved background nor the text colour
SomeColorOffBody ==
    \E c \in Range(sorted_colors) : NotIn(c, {colors.background_color, colors.text_color})

PrimaryOffBody ==
    NotIn(colors.primary_color, {colors.background_color, colors.text_color})

\* C26: in every tier of the role assignment (three or more, exactly two, exactly
\* one available colour) primary_color differs from the resolved background and
\* text colours whenever at least one available colour differs from both.
C26_PrimaryAvoidsBodyColors ==
    (color_pc = "done" /\ Len(sorted_colors) >= 1 /\ SomeColorOffBody) => PrimaryOffBody

\* The part of C26 the code satisfies: the tiers of three or more colours and of
\* exactly one colour
C26_PrimaryOffBodyExceptTwo ==
    (color_pc = "done" /\ Len(sorted_colors) >= 1 /\ Len(sorted_colors) /= 2
     /\ SomeColorOffBody) => PrimaryOffBody

----------------------------------------------------------------------------
(* Properties of a plugin that raises *)

\* The schema enhance_with_plugins holds after its k-th enhance_schema call: what it
\* passes to the next plugin called, or returns after the last
SchemaAfterCall(k) ==
    IF k < Len(call.ret.calls) THEN call.ret.calls[k + 1].received
    ELSE call.ret.design_schema

\* C27: if a plugin's enhance_schema raises after it has modified part of the
\* schema, the schema enhance_with_plugins passes to the remaining plugins and
\* returns equals the schema as it was before that plugin was invoked.
C27_SkippedPluginLeavesNothing ==
    PluginsDone =>
        \A k \in 1..Len(call.ret.calls) :
            call.ret.calls[k].raised => SchemaAfterCall(k) = call.ret.calls[k].received

\* The part of C27 the code satisfies: a plugin that raises is not listed as applied,
\* and the plugins after it are still called
C27_SkippedPluginNotApplied ==
    PluginsDone =>
        /\ \A k \in 1..Len(call.ret.calls) :
              call.ret.calls[k].raised =>
                  call.ret.calls[k].plugin \notin Range(call.ret.applied_plugins)
                  \/ \E j \in 1..Len(call.ret.calls) :
                        j /= k /\ call.ret.calls[j].plugin = call.ret.calls[k].plugin
        /\ Len(call.ret.calls) = Len(ApplicableNames(call.plugins, call.website_type))

----------------------------------------------------------------------------
(* Properties of WordPressPlugin.enhance_schema and validate_schema *)

\* The plugins have run on a page classified "wordpress" whose assembled schema
\* satisfied validate_schema
WordPressEnhanced ==
    /\ "plugins" \in Range(trace)
    /\ website_type = "wordpress"
    /\ validate_schema(DesignSchema(PageDescriptor))

\* C28: for every page classified "wordpress", a schema that satisfies
\* validate_schema before WordPressPlugin.enhance_schema still satisfies it
\* afterwards: the added metadata.cms has type "wordpress" and a string-valued theme,
\* also when the markup contains no wp-content/themes/<name> path.
C28_WordPressKeepsValid ==
    WordPressEnhanced =>
        /\ validate_schema(results.design_schema)
        /\ results.design_schema.metadata.cms.type = "wordpress"
        /\ results.design_schema.metadata.cms.theme /= None

\* The part of C28 the code satisfies: metadata.cms always has the type
\* "wordpress", and the schema stays valid when the markup names a theme
C28_ValidWithThemePath ==
    WordPressEnhanced =>
        /\ results.design_schema.metadata.cms.type = "wordpress"
        /\ ThemeName(html_content) /= None =>
               /\ validate_schema(results.design_schema)
               /\ results.design_schema.metadata.cms.theme = ThemeName(html_content)

----------------------------------------------------------------------------
(* Properties of the typography keyword for sans-serif body fonts *)

\* No descriptor of h1, h2 or h3 exists
NoMajorHeading == DOMAIN descriptors.typography.headings \cap {"h1", "h2", "h3"} = {}

BodyFont == Lower(descriptors.typography.body.font_family)

\* The positions of BodyFont at which sub begins
Occurs(sub) ==
    { i \in 1..(Len(BodyFont) - Len(sub) + 1) : SubSeq(BodyFont, i, i + Len(sub) - 1) = sub }

\* The body font names the generic family sans-serif, and each place where it holds a
\* serif indicator is the 'serif' of a 'sans-serif'
OnlyGenericSansSerif ==
    /\ Occurs(F_sans_serif) /= {}
    /\ \A indicator \in serif_indicators : \A i \in Occurs(indicator) :
          indicator = S_serif /\ (i - 5) \in Occurs(F_sans_serif)

\* C29: when no h1/h2/h3 descriptor exists and the body font is the default
\* "sans-serif", or a stack whose only serif indicator is the generic "sans-serif",
\* the style keywords contain "sans-serif-typography" and not "serif-typography".
C29_SansSerifBodyKeyword ==
    (schema_pc = "done" /\ NoMajorHeading /\ OnlyGenericSansSerif) =>
        /\ K_sans_serif_typography \in Keywords
        /\ K_serif_typography \notin Keywords

\* The part of C29 the code satisfies: a body font without any serif indicator, the
\* word sans-serif included, is classified sans-serif
C29_SansSerifWithoutIndicator ==
    (schema_pc = "done" /\ NoMajorHeading
     /\ \A indicator \in serif_indicators : Occurs(indicator) = {}) =>
        /\ K_sans_serif_typography \in Keywords
        /\ K_serif_typography \notin Keywords

----------------------------------------------------------------------------
(* Properties of the background colour of a transparent root element *)

\* getComputedStyle(document.body).backgroundColor returned 'rgba(0, 0, 0, 0)'
TransparentBody == ~signals.body_raises /\ signals.body_bg = S_rgba_clear

\* C30: when the computed background colour of the root element is the fully
\* transparent "rgba(0, 0, 0, 0)", extract_color_palette resolves background_color to
\* the fallback #ffffff and not to #000000, as it keeps that transparent value out of
\* the palette sources.
C30_TransparentBodyIsWhite ==
    (color_pc = "done" /\ TransparentBody) =>
        /\ colors.background_color = S_white_hex
        /\ colors.background_color /= S_black_hex

\* The part of C30 the code satisfies: the fallback #ffffff is used when the root
\* background cannot be read, and a transparent sample of an element adds no colour
\* to the palette sources
C30_FallbackWhenUnreadable ==
    color_pc = "done" =>
        /\ (signals.body_raises \/ signals.body_bg = None) =>
               colors.background_color = S_white_hex
        /\ S_rgba_clear \notin ComputedColorsRaw(signals.computed_styles)

====
